---- MODULE Spec2Model ----
(***************************************************************************)
(* Verification model of the dusk-blockchain consensus plumbing:           *)
(*   - the reduction collector and broker (reduction/collector.go),        *)
(*   - the two-step reducer and its stopwatches (reduction/reducer.go),    *)
(*   - the selection collector (selection collector, part_002).            *)
(* Each component has its own specification over the shared variable list. *)
(***************************************************************************)
EXTENDS Integers, Sequences, FiniteSets, TLC

(***************************************************************************)
(* Bounds of the model.                                                    *)
(***************************************************************************)
MaxRound == 2
MaxStep == 3
MaxCollect == 4
MaxQueued == 2
MaxRuns == 2
MaxStarts == 1
NumHashes == 2
QuorumSize == 1
MaxScore == 2
MaxSelections == 2
MaxSelCollect == 2
MaxAgrEvents == 3
MaxFinalize == 2
MaxHeight == 2
NumBlockHashes == 2
MaxChainInputs == 3
MaxPublishes == 3
NumValidators == 2
MaxPublishers == 2
BusChanCap == 2
MaxTrailing == 1
NumTxs == 2
MaxTxs == 2
MaxMutations == 2
NumVoters == 3
MaxStoreStep == 2
NumSenders == 2
MaxWeight == 2
MaxStoreOps == 3
MaxRestarts == 3

\* the 32-zero block hash (make([]byte, 32)): the empty vote
EmptyHash == 0
\* the listener ID of the Generator's Restart listener
GeneratorID == 1
\* a nil pointer (collector.reducer, collector.selector)
Nil == 0
\* the configured step timeout (timerLength), in units of the default
DefaultTimeout == 1
\* capacity of collectedVotesChan: make(chan []wire.Event, 1)
VotesChanCap == 1

Rounds == 1..MaxRound
Steps == 1..MaxStep
VoteHashes == 0..NumHashes
\* the key every vote is stored under in the StepEventCollector (see voteKey)
EmptyKey == 0
Keys == 0..NumHashes

VARIABLES
    state,          \* ctx.state: [Round, Step], shared by collector and reducers
    queue,          \* collector.queue: Round -> Step -> sequence of events
    sec,            \* collector.StepEventCollector: key -> sequence of events
    votesChan,      \* collector.collectedVotesChan (shared with the stopwatches)
    creducer,       \* collector.reducer: Nil or an index into reducers
    reducers,       \* reducer objects: [stale], with the round of the message
                    \* they were started for (born)
    runs,           \* begin() tasks
    flushes,        \* flushQueue() tasks
    sub,            \* the subscriber task inside Collect: [pc, pend]
    spawned,        \* `go b.collector.startReduction()` tasks not yet run:
                    \* for each, the round in which the broker spawned it
    outgoing,       \* number of Publish(OutgoingReductionTopic, ..) by the broker
    nextEv,         \* number of events accepted by Collect so far
    delivered,      \* history: event id -> number of times process stored it
    earlyWait,      \* history: events queued for a later round, not yet due
    earlyDue,       \* history: early events whose (round, step) flush has run
    timeout,        \* ctx.timer.Timeout: the step timeout a fetch arms its timer with
    selCur,         \* selection collector: [Round, Step] (CurrentRound, CurrentStep)
    selSelector,    \* selection collector: selector, Nil or an index
    selSelectors,   \* the EventSelector objects: [pick, best]
    selTimers,      \* the time.AfterFunc of each StartSelection
    selListens,     \* the listenSelection task of each StartSelection
    selBestChan,    \* collector.BestEventChan, capacity 1
    selQueue,       \* selection collector: queue
    selSub,         \* the Score subscriber task: "idle" or "blocked"
    selBroker,      \* the task calling UpdateRound and StartSelection
    selPanic,       \* a task dereferenced the nil selector
    selCount,       \* number of events passed to Collect
    agrCollected,   \* agreement accumulator: block hash -> number of events
    agrReady,       \* agreement accumulator: batches a worker has yet to send
    agrEmitted,     \* agreement accumulator: hashes whose batch was handed over
    agrStopped,     \* agreement accumulator: Stop() was called
    agrChan,        \* accumulator.CollectedVotesChan
    agrListen,      \* the listen task: [pc, hash]
    agrPubs,        \* what the component published: [topic, hash, fin]
    agrFinalized,   \* number of Finalize calls that returned
    agrCount,       \* number of events passed to CollectAgreementEvent
    chPrev,         \* Chain.prevBlock: the chain tip
    chStored,       \* database: the blocks stored by StoreBlock
    chCandidates,   \* database: the candidate blocks
    chPubs,         \* what the chain published: [topic, blk]
    chTasks,        \* the Listen task and the Block-topic callback: [pc, blk, ..]
    chInputs,       \* number of messages handed to the chain
    chBidList,      \* Chain.bidList: the bids added by addBidder
    busListeners,   \* event bus: the listeners subscribed to the topic
    busCalls,       \* the Publish calls on the topic: [buf, verdicts, ..]
    busInflight,    \* Publish calls that still notify: [n, todo]
    busNotified,    \* per listener, the calls that were delivered to it
    busChan,        \* the channel of the channel listener
    busGossip,      \* what was published on the Gossip topic: [n, payload]
    busStopped,     \* the listeners that were unsubscribed
    viBuf,          \* varint: the bytes of the buffer before it is read
    viVal,          \* the value given to WriteVarInt
    viFrom,         \* how the buffer was filled: "none", "write" or "raw"
    viRes,          \* the result of ReadVarInt: [done, err, val, rest]
    vdOrig,         \* candidate validation: the block as it was encoded
    vdBlk,          \* the block in the buffer given to Validate
    vdMutations,    \* number of changes made to the buffer
    vdRes,          \* what Validate returned, "none" before the call
    aggVotes,       \* Aggregate: the vote set [first, second] given to it
    aggOut,         \* the AggregatedAgreement built: [built, VotesPerStep]
    accTasks,       \* per task of the reduction collector: the accesses to
                    \* the vote store and to c.reducer it still makes, and
                    \* whether it is inside the first of them
    stCollected,    \* agreement store: collected, step -> the agreements stored
    stInserted,     \* history: the agreements inserted since the last Clear
    stLast,         \* the last call on the store: [op, a, weight, ret, ..]
    stOps,           \* number of calls made on the store
    genListening,   \* Generator: its Restart listener is subscribed
    genCoord,       \* the coordinator's [Round, Step], put in the header of sent events
    genRestarts,    \* number of Restart events passed to Generator.Collect
    genSent         \* the events sent with SendInternally

redVars == <<state, queue, sec, votesChan, creducer, reducers, runs,
             flushes, sub, spawned, outgoing, nextEv, delivered, earlyWait,
             earlyDue, timeout>>

selVars == <<selCur, selSelector, selSelectors, selTimers, selListens,
             selBestChan, selQueue, selSub, selBroker, selPanic, selCount>>

agrVars == <<agrCollected, agrReady, agrEmitted, agrStopped, agrChan,
             agrListen, agrPubs, agrFinalized, agrCount>>

chainVars ==
    <<chPrev, chStored, chCandidates, chPubs, chTasks, chInputs, chBidList>>

\* the variables of the other components, for each component
busVars ==
    <<busListeners, busCalls, busInflight, busNotified, busChan, busGossip,
      busStopped>>

viVars == <<viBuf, viVal, viFrom, viRes>>

vdVars == <<vdOrig, vdBlk, vdMutations, vdRes>>

aggVars == <<aggVotes, aggOut>>

accVars == <<accTasks>>

storeVars == <<stCollected, stInserted, stLast, stOps>>

genVars == <<genListening, genCoord, genRestarts, genSent>>

outsideReduction ==
    <<selVars, agrVars, chainVars, busVars, viVars, vdVars, aggVars,
      accVars,
      storeVars,
      genVars>>
outsideSelection ==
    <<redVars, agrVars, chainVars, busVars, viVars, vdVars, aggVars,
      accVars,
      storeVars,
      genVars>>
outsideAgreement ==
    <<redVars, selVars, chainVars, busVars, viVars, vdVars, aggVars,
      accVars,
      storeVars,
      genVars>>
outsideChain ==
    <<redVars, selVars, agrVars, busVars, viVars, vdVars, aggVars,
      accVars,
      storeVars,
      genVars>>
outsideBus ==
    <<redVars, selVars, agrVars, chainVars, viVars, vdVars, aggVars,
      accVars,
      storeVars,
      genVars>>
outsideVarInt ==
    <<redVars, selVars, agrVars, chainVars, busVars, vdVars, aggVars,
      accVars,
      storeVars,
      genVars>>
outsideValidator ==
    <<redVars, selVars, agrVars, chainVars, busVars, viVars, aggVars,
      accVars,
      storeVars,
      genVars>>
outsideAggregate ==
    <<redVars, selVars, agrVars, chainVars, busVars, viVars, vdVars,
      accVars,
      storeVars,
      genVars>>

outsideAccess ==
    <<redVars, selVars, agrVars, chainVars, busVars, viVars, vdVars, aggVars,
      storeVars,
      genVars>>

outsideStore ==
    <<redVars, selVars, agrVars, chainVars, busVars, viVars,
      vdVars, aggVars, accVars,
      genVars>>

outsideGenerator ==
    <<redVars, selVars, agrVars, chainVars, busVars, viVars,
      vdVars, aggVars, accVars, storeVars>>

vars ==
    <<redVars, selVars, agrVars, chainVars, busVars, viVars, vdVars, aggVars,
      accVars,
      storeVars,
      genVars>>

\* the elements of a sequence
SeqRange(q) == {q[k] : k \in 1..Len(q)}

(***************************************************************************)
(* consensus.EventQueue (the queue of early events).                       *)
(***************************************************************************)
EmptyQueue == [r \in Rounds |-> [s \in Steps |-> <<>>]]

PutEvent(q, round, step, ev) ==
    [q EXCEPT ![round][step] = Append(@, ev)]

\* GetEvents drains the entries of (round, step)
GetEvents(q, round, step) == q[round][step]

AfterGetEvents(q, round, step) == [q EXCEPT ![round][step] = <<>>]

\* Clear drops all entries at that round
QueueClear(q, round) ==
    [r \in Rounds |-> IF r = round THEN [s \in Steps |-> <<>>] ELSE q[r]]

\* ConsumeUntil drops all entries with Round < round
ConsumeUntil(q, round) ==
    [r \in Rounds |-> IF r < round THEN [s \in Steps |-> <<>>] ELSE q[r]]

(***************************************************************************)
(* consensus.StepEventCollector: key -> events.                            *)
(***************************************************************************)
EmptySec == [k \in Keys |-> <<>>]

\* Store appends the event under the key and returns the new count
Store(c, ev, key) == [c EXCEPT ![key] = Append(@, ev)]

SecClear(c) == EmptySec

(***************************************************************************)
(* Committee.                                                              *)
(***************************************************************************)
Quorum == QuorumSize

\* the sortition is a fixed function of (round, step): this node is a member
\* of two committees out of three
AmMember(round, step) == (round + step) % 3 # 0

(***************************************************************************)
(* collector (reduction).                                                  *)
(***************************************************************************)
isRelevant(round, step) ==
    state.Round = round /\ state.Step = step /\ creducer # Nil

isEarly(round, step) ==
    state.Round < round \/ (state.Round = round /\ state.Step < step)

\* process: b := make([]byte, 0, 32); EmbedVoteHash(ev, bytes.NewBuffer(b));
\* hash := hex.EncodeToString(b).  The buffer grows its own slice header: b
\* stays of length 0, so every vote is stored under the empty string.
voteKey(ev) == EmptyKey

\* The outcome of process(ev) on store c with channel ch: the vote is stored;
\* when the count exceeds the quorum the votes are sent on the channel and the
\* store is cleared.  A send on a full channel blocks: the task keeps the
\* votes in pend until the channel has room.
process(c, ch, ev) ==
    LET key == voteKey(ev)
        stored == Store(c, ev, key)
        count == Len(stored[key])
    IN  IF count > Quorum
        THEN IF Len(ch) < VotesChanCap
             THEN [sec |-> SecClear(stored), chan |-> Append(ch, stored[key]),
                   pend |-> <<>>, blocked |-> FALSE]
             ELSE [sec |-> stored, chan |-> ch, pend |-> stored[key],
                   blocked |-> TRUE]
        ELSE [sec |-> stored, chan |-> ch, pend |-> <<>>, blocked |-> FALSE]

Delivered(d, ev) == [d EXCEPT ![ev.id] = @ + 1]

(***************************************************************************)
(* reducer and eventStopWatch.                                             *)
(***************************************************************************)
NewRun(red, pubs) ==
    [red |-> red, pc |-> "fetch1", tmo |-> timeout,
     ev1 |-> <<>>, ev2 |-> <<>>, how1 |-> "none", how2 |-> "none", incs |-> 0, pubs |-> pubs,
     ended |-> FALSE, late |-> {}]

\* extractHash: the 32-zero hash of an empty batch, else the identifier of
\* the first event
extractHash(events) ==
    IF events = <<>> THEN EmptyHash ELSE events[1].hash

\* variant: identical results suffice, the zero hash included
isReductionSuccessful_IdenticalOnly(hash1, hash2) == hash1 = hash2

\* variant: a non-zero second-step hash suffices
isReductionSuccessful_SecondOnly(hash1, hash2) == hash2 # EmptyHash

isReductionSuccessful(hash1, hash2) ==
    LET bothNotNil == hash1 # EmptyHash /\ hash2 # EmptyHash
        identicalResults == hash1 = hash2
    IN  bothNotNil /\ identicalResults

inCommittee(st) == AmMember(st.Round, st.Step)

\* the message published by sendReduction / sendAgreement / publishRegeneration
ReductionMsg(st, hash) ==
    [topic |-> "Reduction", round |-> st.Round, step |-> st.Step, hash |-> hash]

AgreementMsg(st, hash) ==
    [topic |-> "Agreement", round |-> st.Round, step |-> st.Step, hash |-> hash]

RestartMsg(st) ==
    [topic |-> "Restart", round |-> st.Round, step |-> st.Step, hash |-> EmptyHash]

IncrementStep(st) == [st EXCEPT !.Step = @ + 1]

\* a fetch of run r returns batch; how is "timeout", "votes" or "stop"
Returned(r, batch, how) ==
    LET lateTag == IF r.ended /\ how # "stop" THEN {how} ELSE {}
    IN  IF r.pc = "fetch1"
        THEN [r EXCEPT !.pc = "first", !.ev1 = batch, !.how1 = how,
                       !.late = @ \cup lateTag]
        ELSE [r EXCEPT !.pc = "second", !.ev2 = batch, !.how2 = how,
                       !.late = @ \cup lateTag]

Fetching(red, pc) ==
    {i \in 1..Len(runs) : runs[i].red = red /\ runs[i].pc = pc}

\* the runs a stop() on a watch of reducer red can reach: the send on the
\* unbuffered stopChan succeeds only if a fetch is waiting on it, and then it
\* is received by exactly one of them; otherwise stop() does nothing
StopChoices(red, pc) ==
    IF Fetching(red, pc) = {} THEN {Nil} ELSE Fetching(red, pc)

\* end(): stale = true, firstStep.stop(), secondStep.stop(); a is the run whose
\* first fetch is stopped, b the run whose second fetch is stopped
endRuns(red, a, b) ==
    [i \in 1..Len(runs) |->
        IF runs[i].red # red \/ runs[i].pc = "done" THEN runs[i]
        ELSE LET r == [runs[i] EXCEPT !.ended = TRUE]
             IN  IF i = a \/ i = b THEN Returned(r, <<>>, "stop") ELSE r]

endReducers(red) == [reducers EXCEPT ![red].stale = TRUE]

(***************************************************************************)
(* Initial state.                                                          *)
(***************************************************************************)
RedInit ==
    /\ state = [Round |-> 1, Step |-> 1]
    /\ queue = EmptyQueue
    /\ sec = EmptySec
    /\ votesChan = <<>>
    /\ creducer = Nil
    /\ reducers = <<>>
    /\ runs = <<>>
    /\ flushes = <<>>
    /\ sub = [pc |-> "idle", pend |-> <<>>]
    /\ spawned = <<>>
    /\ outgoing = 0
    /\ nextEv = 0
    /\ delivered = [i \in 1..MaxCollect |-> 0]
    /\ earlyWait = {}
    /\ earlyDue = {}
    /\ timeout = DefaultTimeout

(***************************************************************************)
(* collector.Collect (the reduction topic subscriber).                     *)
(***************************************************************************)
\* an event that fails Unmarshal or Verify is returned as an error
CollectInvalid ==
    /\ sub.pc = "idle"
    /\ UNCHANGED <<state, queue, sec, votesChan, creducer, reducers, runs,
                   flushes, sub, spawned, outgoing, nextEv, delivered,
                   earlyWait, earlyDue>>
    /\ UNCHANGED timeout
    /\ UNCHANGED outsideReduction

Collect(round, step, hash) ==
    /\ sub.pc = "idle"
    /\ nextEv < MaxCollect
    /\ LET ev == [id |-> nextEv + 1, round |-> round, step |-> step,
                  hash |-> hash]
       IN  /\ nextEv' = nextEv + 1
           /\ IF isRelevant(round, step)
              THEN LET p == process(sec, votesChan, ev)
                   IN  /\ sec' = p.sec
                       /\ votesChan' = p.chan
                       /\ sub' = IF p.blocked
                                 THEN [pc |-> "send", pend |-> p.pend]
                                 ELSE sub
                       /\ delivered' = Delivered(delivered, ev)
                       /\ UNCHANGED <<queue, earlyWait>>
              ELSE IF isEarly(round, step)
              THEN /\ queue' = PutEvent(queue, round, step, ev)
                   /\ earlyWait' = IF state.Round < round
                                   THEN earlyWait \cup {ev} ELSE earlyWait
                   /\ UNCHANGED <<sec, votesChan, sub, delivered>>
              ELSE UNCHANGED <<queue, sec, votesChan, sub, delivered,
                               earlyWait>>
    /\ UNCHANGED <<state, creducer, reducers, runs, flushes, spawned,
                   outgoing, earlyDue>>
    /\ UNCHANGED timeout
    /\ UNCHANGED outsideReduction

\* the subscriber blocked in process on `c.collectedVotesChan <- votes`
\* completes the send and clears the store
CollectSend ==
    /\ sub.pc = "send"
    /\ Len(votesChan) < VotesChanCap
    /\ votesChan' = Append(votesChan, sub.pend)
    /\ sec' = SecClear(sec)
    /\ sub' = [pc |-> "idle", pend |-> <<>>]
    /\ UNCHANGED <<state, queue, creducer, reducers, runs, flushes,
                   spawned, outgoing, nextEv, delivered, earlyWait, earlyDue>>
    /\ UNCHANGED timeout
    /\ UNCHANGED outsideReduction

(***************************************************************************)
(* collector.onTimeout: a message on ctx.timer.timeoutChan clears the      *)
(* store.                                                                  *)
(***************************************************************************)
onTimeout ==
    /\ sec' = SecClear(sec)
    /\ UNCHANGED <<state, queue, votesChan, creducer, reducers, runs,
                   flushes, sub, spawned, outgoing, nextEv, delivered,
                   earlyWait, earlyDue>>
    /\ UNCHANGED timeout
    /\ UNCHANGED outsideReduction

(***************************************************************************)
(* collector.flushQueue, one task per startReduction.                      *)
(***************************************************************************)
NewFlush == [pc |-> "get", todo |-> <<>>, pend |-> <<>>, key |-> <<0, 0>>]

flushQueueGet(i) ==
    /\ flushes[i].pc = "get"
    /\ LET queuedEvents == GetEvents(queue, state.Round, state.Step)
           due == {e \in earlyWait :
                     e.round = state.Round /\ e.step = state.Step}
       IN  /\ queue' = AfterGetEvents(queue, state.Round, state.Step)
           /\ flushes' = [flushes EXCEPT ![i] =
                 [pc |-> IF queuedEvents = <<>> THEN "done" ELSE "proc",
                  todo |-> queuedEvents, pend |-> <<>>,
                  key |-> <<state.Round, state.Step>>]]
           /\ earlyWait' = earlyWait \ due
           /\ earlyDue' = earlyDue \cup due
    /\ UNCHANGED <<state, sec, votesChan, creducer, reducers, runs,
                   sub, spawned, outgoing, nextEv, delivered>>
    /\ UNCHANGED timeout
    /\ UNCHANGED outsideReduction

flushQueueProcess(i) ==
    /\ flushes[i].pc = "proc"
    /\ LET ev == Head(flushes[i].todo)
           rest == Tail(flushes[i].todo)
           p == process(sec, votesChan, ev)
       IN  /\ sec' = p.sec
           /\ votesChan' = p.chan
           /\ delivered' = Delivered(delivered, ev)
           /\ flushes' = [flushes EXCEPT ![i] =
                 [@ EXCEPT !.todo = rest, !.pend = p.pend,
                           !.pc = IF p.blocked THEN "send"
                                  ELSE IF rest = <<>> THEN "done"
                                  ELSE "proc"]]
    /\ UNCHANGED <<state, queue, creducer, reducers, runs, sub,
                   spawned, outgoing, nextEv, earlyWait, earlyDue>>
    /\ UNCHANGED timeout
    /\ UNCHANGED outsideReduction

flushQueueSend(i) ==
    /\ flushes[i].pc = "send"
    /\ Len(votesChan) < VotesChanCap
    /\ votesChan' = Append(votesChan, flushes[i].pend)
    /\ sec' = SecClear(sec)
    /\ flushes' = [flushes EXCEPT ![i] =
          [@ EXCEPT !.pend = <<>>,
                    !.pc = IF flushes[i].todo = <<>> THEN "done" ELSE "proc"]]
    /\ UNCHANGED <<state, queue, creducer, reducers, runs, sub,
                   spawned, outgoing, nextEv, delivered, earlyWait, earlyDue>>
    /\ UNCHANGED timeout
    /\ UNCHANGED outsideReduction

(***************************************************************************)
(* broker.Listen and the collector operations it calls.                    *)
(***************************************************************************)
\* case round := <-b.roundUpdateChan: b.collector.updateRound(round)
updateRound(round) ==
    /\ state' = [Round |-> round, Step |-> 1]
    /\ queue' = QueueClear(queue, round)
    /\ sec' = SecClear(sec)
    /\ IF creducer # Nil
       THEN \E a \in StopChoices(creducer, "fetch1"),
               b \in StopChoices(creducer, "fetch2") :
                /\ runs' = endRuns(creducer, a, b)
                /\ reducers' = endReducers(creducer)
       ELSE UNCHANGED <<runs, reducers>>
    /\ creducer' = Nil
    /\ UNCHANGED <<votesChan, flushes, sub, spawned, outgoing, nextEv,
                   delivered, earlyWait, earlyDue>>
    /\ UNCHANGED timeout
    /\ UNCHANGED outsideReduction

\* Publish(OutgoingReductionTopic, ..); go b.collector.startReduction()
brokerSpawn(limit) ==
    /\ Len(runs) + Len(spawned) < limit
    /\ spawned' = Append(spawned, state.Round)
    /\ outgoing' = outgoing + 1
    /\ UNCHANGED <<state, queue, sec, votesChan, creducer, reducers,
                   runs, flushes, sub, nextEv, delivered, earlyWait, earlyDue>>
    /\ UNCHANGED timeout
    /\ UNCHANGED outsideReduction

\* case buf := <-b.selectionChan
brokerSelection(limit) == brokerSpawn(limit)

\* case reductionVote := <-b.ctx.reductionVoteChan
brokerReductionVote(limit) == brokerSpawn(limit)

\* the spawned collector.startReduction: a new reducer becomes the active
\* one, and flushQueue and begin are started as tasks
collector_startReduction ==
    /\ \E k \in 1..Len(spawned) :
          /\ spawned' = SubSeq(spawned, 1, k - 1)
                            \o SubSeq(spawned, k + 1, Len(spawned))
          /\ reducers' = Append(reducers,
                                [stale |-> FALSE, born |-> spawned[k]])
    /\ creducer' = Len(reducers) + 1
    /\ flushes' = Append(flushes, NewFlush)
    /\ runs' = Append(runs, NewRun(Len(reducers) + 1, <<>>))
    /\ UNCHANGED <<state, queue, sec, votesChan, sub, outgoing,
                   nextEv, delivered, earlyWait, earlyDue>>
    /\ UNCHANGED timeout
    /\ UNCHANGED outsideReduction

(***************************************************************************)
(* reducer.                                                                *)
(***************************************************************************)
\* startReduction(hash) on an existing reducer: stale = false, the vote for
\* hash is sent, begin is started as a task
reducer_startReduction(red, hash) ==
    /\ Len(runs) + Len(spawned) < MaxRuns
    /\ reducers' = [reducers EXCEPT ![red].stale = FALSE]
    /\ runs' = Append(runs, NewRun(red, <<ReductionMsg(state, hash)>>))
    /\ UNCHANGED <<state, queue, sec, votesChan, creducer, flushes,
                   sub, spawned, outgoing, nextEv, delivered, earlyWait,
                   earlyDue>>
    /\ UNCHANGED timeout
    /\ UNCHANGED outsideReduction

\* variant: the batch waiting in the channel is returned with the timeout
fetchTimeout_TakesBatch(i) ==
    /\ runs[i].pc \in {"fetch1", "fetch2"}
    /\ runs' = [runs EXCEPT ![i] =
          Returned(@, IF votesChan # <<>> THEN Head(votesChan) ELSE <<>>,
                   "timeout")]
    /\ UNCHANGED <<state, queue, sec, votesChan, creducer, reducers,
                   flushes, sub, spawned, outgoing, nextEv, delivered,
                   earlyWait, earlyDue>>
    /\ UNCHANGED timeout
    /\ UNCHANGED outsideReduction

\* eventStopWatch.fetch, case <-timer.C
fetchTimeout(i) ==
    /\ runs[i].pc \in {"fetch1", "fetch2"}
    /\ runs' = [runs EXCEPT ![i] = Returned(@, <<>>, "timeout")]
    /\ UNCHANGED <<state, queue, sec, votesChan, creducer, reducers,
                   flushes, sub, spawned, outgoing, nextEv, delivered,
                   earlyWait, earlyDue>>
    /\ UNCHANGED timeout
    /\ UNCHANGED outsideReduction

\* eventStopWatch.fetch, case collectedVotes := <-esw.collectedVotesChan
fetchVotes(i) ==
    /\ runs[i].pc \in {"fetch1", "fetch2"}
    /\ votesChan # <<>>
    /\ runs' = [runs EXCEPT ![i] = Returned(@, Head(votesChan), "votes")]
    /\ votesChan' = Tail(votesChan)
    /\ UNCHANGED <<state, queue, sec, creducer, reducers, flushes,
                   sub, spawned, outgoing, nextEv, delivered, earlyWait,
                   earlyDue>>
    /\ UNCHANGED timeout
    /\ UNCHANGED outsideReduction

\* variant: the vote is sent before the step is incremented
beginFirstStep_VoteBeforeIncrement(r, st, stale) ==
    IF stale THEN [run |-> [r EXCEPT !.pc = "fetch2"], state |-> st]
    ELSE LET st2 == IncrementStep(st)
             hash1 == extractHash(r.ev1)
             tags == IF r.ended THEN {"inc"} \cup
                        (IF inCommittee(st) THEN {"pub"} ELSE {})
                     ELSE {}
         IN  [run |-> [r EXCEPT !.pc = "fetch2", !.incs = @ + 1,
                         !.pubs = IF inCommittee(st)
                                  THEN Append(@, ReductionMsg(st, hash1))
                                  ELSE @,
                         !.late = @ \cup tags],
              state |-> st2]

\* begin, after the first fetch: under RLock, if not stale, the step is
\* incremented and, if in the committee, the vote for hash1 is sent
beginFirstStep(r, st, stale) ==
    IF stale THEN [run |-> [r EXCEPT !.pc = "fetch2"], state |-> st]
    ELSE LET st2 == IncrementStep(st)
             hash1 == extractHash(r.ev1)
             tags == IF r.ended THEN {"inc"} \cup
                        (IF inCommittee(st2) THEN {"pub"} ELSE {})
                     ELSE {}
         IN  [run |-> [r EXCEPT !.pc = "fetch2", !.incs = @ + 1,
                         !.pubs = IF inCommittee(st2)
                                  THEN Append(@, ReductionMsg(st2, hash1))
                                  ELSE @,
                         !.late = @ \cup tags],
              state |-> st2]

\* variant: the regeneration is published only when the agreement is sent
beginSecondStep_RestartOnSuccess(r, st, stale) ==
    IF stale THEN [run |-> [r EXCEPT !.pc = "done"], state |-> st]
    ELSE LET hash1 == extractHash(r.ev1)
             hash2 == extractHash(r.ev2)
             agree == isReductionSuccessful(hash1, hash2) /\ inCommittee(st)
             st2 == IncrementStep(st)
             tags == IF r.ended THEN {"inc", "pub"} ELSE {}
         IN  [run |-> [r EXCEPT !.pc = "done", !.incs = @ + 1,
                         !.pubs = IF agree
                                  THEN Append(Append(@, AgreementMsg(st, hash2)),
                                              RestartMsg(st2))
                                  ELSE @,
                         !.late = @ \cup tags],
              state |-> st2]

\* begin, after the second fetch: under RLock, if not stale, the agreement is
\* sent when the reduction succeeded and the node is in the committee, the
\* step is incremented and the regeneration is published
beginSecondStep(r, st, stale) ==
    IF stale THEN [run |-> [r EXCEPT !.pc = "done"], state |-> st]
    ELSE LET hash1 == extractHash(r.ev1)
             hash2 == extractHash(r.ev2)
             agree == isReductionSuccessful(hash1, hash2) /\ inCommittee(st)
             st2 == IncrementStep(st)
             pubs1 == IF agree THEN Append(r.pubs, AgreementMsg(st, hash2))
                      ELSE r.pubs
             tags == IF r.ended THEN {"inc", "pub"} ELSE {}
         IN  [run |-> [r EXCEPT !.pc = "done", !.incs = @ + 1,
                         !.pubs = Append(pubs1, RestartMsg(st2)),
                         !.late = @ \cup tags],
              state |-> st2]

begin(i) ==
    /\ runs[i].pc \in {"first", "second"}
    /\ LET stale == reducers[runs[i].red].stale
           res == IF runs[i].pc = "first"
                  THEN beginFirstStep(runs[i], state, stale)
                  ELSE beginSecondStep(runs[i], state, stale)
       IN  /\ res.state.Step <= MaxStep
           /\ runs' = [runs EXCEPT ![i] = res.run]
           /\ state' = res.state
    /\ UNCHANGED <<queue, sec, votesChan, creducer, reducers, flushes,
                   sub, spawned, outgoing, nextEv, delivered, earlyWait,
                   earlyDue>>
    /\ UNCHANGED timeout
    /\ UNCHANGED outsideReduction

(***************************************************************************)
(* The collector as the producer of the reducer's input: process reaching  *)
(* the quorum for the current (round, step) sends the stored votes on      *)
(* collectedVotesChan.  The single Collect calls are in SpecCollector.     *)
(***************************************************************************)
VoteBatch(st, hash) ==
    [k \in 1..(Quorum + 1) |->
        [id |-> k, round |-> st.Round, step |-> st.Step, hash |-> hash]]

votesCollected(hash) ==
    /\ Len(votesChan) < VotesChanCap
    /\ votesChan' = Append(votesChan, VoteBatch(state, hash))
    /\ UNCHANGED <<state, queue, sec, creducer, reducers, runs,
                   flushes, sub, spawned, outgoing, nextEv, delivered,
                   earlyWait, earlyDue>>
    /\ UNCHANGED timeout
    /\ UNCHANGED outsideReduction

(***************************************************************************)
(* Selection collector.                                                    *)
(***************************************************************************)
\* headers of Score events: Round is a uint64 and Step a uint8, from 0
SelRounds == 0..MaxRound
SelSteps == 0..MaxStep
Scores == 1..MaxScore
\* capacity of BestEventChan: make(chan *bytes.Buffer, 1)
BestChanCap == 1

SelEmptyQueue == [r \in SelRounds |-> [s \in SelSteps |-> <<>>]]

SelConsumeUntil(q, round) ==
    [r \in SelRounds |-> IF r < round THEN [s \in SelSteps |-> <<>>] ELSE q[r]]

\* ConsumeNextStepEvents drains the lowest step queued at that round and
\* returns (events, step)
NextStep(q, round) ==
    IF \E s \in SelSteps : q[round][s] # <<>>
    THEN CHOOSE s \in SelSteps :
            /\ q[round][s] # <<>>
            /\ \A t \in SelSteps : q[round][t] # <<>> => s <= t
    ELSE 0

ConsumeNextStepEvents(q, round) ==
    LET step == NextStep(q, round)
    IN  [events |-> q[round][step], step |-> step,
         queue |-> [q EXCEPT ![round][step] = <<>>]]

sel_isObsolete(cur, round, step) ==
    round < cur.Round \/ step < cur.Step

sel_isEarly(cur, selector, round, step) ==
    round > cur.Round \/ step > cur.Step \/ selector = Nil

\* EventSelector.PickBest keeps the event of greater priority (the score)
Priority(best, ev) == IF ev.score > best THEN ev.score ELSE best

\* process: the outcome for one event, given the collector's fields
sel_outcome(cur, selector, selectors, ev) ==
    IF sel_isObsolete(cur, ev.round, ev.step) THEN "dropped"
    ELSE IF sel_isEarly(cur, selector, ev.round, ev.step) THEN "queued"
    ELSE IF selectors[selector].pick = "running" THEN "sent"
    ELSE "blocked"

SelInit ==
    /\ selCur = [Round |-> 0, Step |-> 0]
    /\ selSelector = Nil
    /\ selSelectors = <<>>
    /\ selTimers = <<>>
    /\ selListens = <<>>
    /\ selBestChan = <<>>
    /\ selQueue = SelEmptyQueue
    /\ selSub = "idle"
    /\ selBroker = "idle"
    /\ selPanic = FALSE
    /\ selCount = 0

\* collector.Collect -> process, on the Score subscriber's task
sel_Collect(round, step, score) ==
    /\ ~selPanic
    /\ selSub = "idle"
    /\ selCount < MaxSelCollect
    /\ selCount' = selCount + 1
    /\ LET ev == [round |-> round, step |-> step, score |-> score]
           out == sel_outcome(selCur, selSelector, selSelectors, ev)
       IN  /\ selQueue' = IF out = "queued"
                          THEN [selQueue EXCEPT ![round][step] = Append(@, ev)]
                          ELSE selQueue
           /\ selSelectors' = IF out = "sent"
                              THEN [selSelectors EXCEPT ![selSelector].best =
                                       Priority(@, ev)]
                              ELSE selSelectors
           /\ selSub' = IF out = "blocked" THEN "blocked" ELSE "idle"
    /\ UNCHANGED <<selCur, selSelector, selTimers, selListens, selBestChan,
                   selBroker, selPanic>>
    /\ UNCHANGED outsideSelection

\* UpdateRound: the round and step are set, the selection is stopped, the
\* queue is consumed up to the round.  stopSelection sends on the selector's
\* StopChan: a running PickBest receives it; after PickBest has returned
\* nobody receives and the caller stays blocked in the send.
sel_UpdateRound(round) ==
    /\ ~selPanic
    /\ selBroker = "idle"
    /\ selCur' = [Round |-> round, Step |-> 1]
    /\ IF selSelector # Nil /\ selSelectors[selSelector].pick # "running"
       THEN /\ selBroker' = "blocked"
            /\ UNCHANGED <<selSelector, selSelectors, selQueue>>
       ELSE /\ selSelectors' = IF selSelector # Nil
                               THEN [selSelectors EXCEPT
                                        ![selSelector].pick = "emitting",
                                        ![selSelector].stopped = TRUE]
                               ELSE selSelectors
            /\ selSelector' = Nil
            /\ selQueue' = SelConsumeUntil(selQueue, round)
            /\ UNCHANGED selBroker
    /\ UNCHANGED <<selTimers, selListens, selBestChan, selSub, selPanic,
                   selCount>>
    /\ UNCHANGED outsideSelection

\* the events StartSelection passes to process, in order, on selector k
RECURSIVE SelFlush(_, _, _, _)
SelFlush(events, cur, k, acc) ==
    IF events = <<>> THEN acc
    ELSE LET ev == Head(events)
             out == sel_outcome(cur, k, acc.selectors, ev)
         IN  SelFlush(Tail(events), cur, k,
                [selectors |-> IF out = "sent"
                               THEN [acc.selectors EXCEPT ![k].best =
                                        Priority(@, ev)]
                               ELSE acc.selectors,
                 queue |-> IF out = "queued"
                           THEN [acc.queue EXCEPT ![ev.round][ev.step] =
                                    Append(@, ev)]
                           ELSE acc.queue])

\* StartSelection: a new selector with its PickBest task, the timer and the
\* listenSelection task; then the queue's next step at the current round is
\* drained and, if it is the current step, its events are processed
StartSelection ==
    /\ ~selPanic
    /\ selBroker = "idle"
    /\ Len(selSelectors) < MaxSelections
    /\ LET k == Len(selSelectors) + 1
           created == Append(selSelectors,
                       [pick |-> "running", best |-> 0, stopped |-> FALSE])
           c == ConsumeNextStepEvents(selQueue, selCur.Round)
           f == IF c.step = selCur.Step
                THEN SelFlush(c.events, selCur, k,
                        [selectors |-> created, queue |-> c.queue])
                ELSE [selectors |-> created, queue |-> c.queue]
       IN  /\ selSelector' = k
           /\ selSelectors' = f.selectors
           /\ selQueue' = f.queue
           /\ selTimers' = Append(selTimers, "armed")
           /\ selListens' = Append(selListens,
                                [pc |-> "start", on |-> Nil, best |-> 0])
    /\ UNCHANGED <<selCur, selBestChan, selSub, selBroker, selPanic, selCount>>
    /\ UNCHANGED outsideSelection

\* the timer's func: s.selector.StopChan <- true, on the selector the
\* collector holds when the timer fires
sel_timerFires(k) ==
    /\ ~selPanic
    /\ selTimers[k] = "armed"
    /\ IF selSelector = Nil
       THEN /\ selPanic' = TRUE
            /\ selTimers' = [selTimers EXCEPT ![k] = "panic"]
            /\ UNCHANGED selSelectors
       ELSE IF selSelectors[selSelector].pick = "running"
       THEN /\ selSelectors' = [selSelectors EXCEPT
                                   ![selSelector].pick = "emitting"]
            /\ selTimers' = [selTimers EXCEPT ![k] = "fired"]
            /\ UNCHANGED selPanic
       ELSE /\ selTimers' = [selTimers EXCEPT ![k] = "blocked"]
            /\ UNCHANGED <<selSelectors, selPanic>>
    /\ UNCHANGED <<selCur, selSelector, selListens, selBestChan, selQueue,
                   selSub, selBroker, selCount>>
    /\ UNCHANGED outsideSelection

\* listenSelection: ev := <-s.selector.BestEventChan, then the marshalled
\* buffer is sent on the collector's BestEventChan
sel_listenStart(k) ==
    /\ ~selPanic
    /\ selListens[k].pc = "start"
    /\ IF selSelector = Nil
       THEN /\ selPanic' = TRUE
            /\ selListens' = [selListens EXCEPT ![k].pc = "panic"]
       ELSE /\ selListens' = [selListens EXCEPT ![k].pc = "wait",
                                                ![k].on = selSelector]
            /\ UNCHANGED selPanic
    /\ UNCHANGED <<selCur, selSelector, selSelectors, selTimers, selBestChan,
                   selQueue, selSub, selBroker, selCount>>
    /\ UNCHANGED outsideSelection

sel_listenReceive(k) ==
    /\ ~selPanic
    /\ selListens[k].pc = "wait"
    /\ selSelectors[selListens[k].on].pick = "emitting"
    /\ selSelectors' = [selSelectors EXCEPT ![selListens[k].on].pick = "done"]
    /\ selListens' = [selListens EXCEPT ![k].pc = "send",
                         ![k].best = selSelectors[selListens[k].on].best]
    /\ UNCHANGED <<selCur, selSelector, selTimers, selBestChan, selQueue,
                   selSub, selBroker, selPanic, selCount>>
    /\ UNCHANGED outsideSelection

sel_listenSend(k) ==
    /\ ~selPanic
    /\ selListens[k].pc = "send"
    /\ Len(selBestChan) < BestChanCap
    /\ selBestChan' = Append(selBestChan, selListens[k].best)
    /\ selListens' = [selListens EXCEPT ![k].pc = "done"]
    /\ UNCHANGED <<selCur, selSelector, selSelectors, selTimers, selQueue,
                   selSub, selBroker, selPanic, selCount>>
    /\ UNCHANGED outsideSelection

\* the owner of the collector takes the best event and moves to the next
\* phase: the step is incremented
sel_OnPhaseComplete ==
    /\ ~selPanic
    /\ selBroker = "idle"
    /\ selBestChan # <<>>
    /\ selCur.Step < MaxStep
    /\ selBestChan' = Tail(selBestChan)
    /\ selCur' = [selCur EXCEPT !.Step = @ + 1]
    /\ UNCHANGED <<selSelector, selSelectors, selTimers, selListens, selQueue,
                   selSub, selBroker, selPanic, selCount>>
    /\ UNCHANGED outsideSelection

SelectionNext ==
    \/ \E round \in SelRounds, step \in SelSteps, score \in Scores :
          sel_Collect(round, step, score)
    \/ \E round \in SelRounds : sel_UpdateRound(round)
    \/ StartSelection
    \/ \E k \in 1..Len(selTimers) : sel_timerFires(k)
    \/ \E k \in 1..Len(selListens) : sel_listenStart(k)
    \/ \E k \in 1..Len(selListens) : sel_listenReceive(k)
    \/ \E k \in 1..Len(selListens) : sel_listenSend(k)
    \/ sel_OnPhaseComplete

(***************************************************************************)
(* Agreement component (agreement, part_004).                              *)
(***************************************************************************)
\* capacity of the accumulator's CollectedVotesChan
AgrChanCap == 1

AgrHashes == 1..NumHashes

\* Initialize: the handler and the accumulator are created, the listen task
\* is started
AgrInit ==
    /\ agrCollected = [h \in AgrHashes |-> 0]
    /\ agrReady = <<>>
    /\ agrEmitted = {}
    /\ agrStopped = FALSE
    /\ agrChan = <<>>
    /\ agrListen = [pc |-> "wait", hash |-> EmptyHash]
    /\ agrPubs = <<>>
    /\ agrFinalized = 0
    /\ agrCount = 0

\* Accumulator.Process: the event is counted under its identifier (the block
\* hash); the identifier that reaches the quorum has its batch handed to
\* CollectedVotesChan once.  A stopped accumulator has no workers.
AccumulatorProcess(collected, ready, emitted, stopped, hash) ==
    IF stopped THEN [collected |-> collected, ready |-> ready]
    ELSE LET c == [collected EXCEPT ![hash] = @ + 1]
         IN  [collected |-> c,
              ready |-> IF c[hash] >= Quorum /\ hash \notin emitted
                           /\ hash \notin SeqRange(ready)
                        THEN Append(ready, hash) ELSE ready]

\* the filtering listener and CollectAgreementEvent: an event of a sender
\* that is not a committee member is filtered, an event that does not
\* unmarshal is returned as an error, the others go to the accumulator
CollectAgreementEvent(hash, member, wellFormed) ==
    /\ agrCount < MaxAgrEvents
    /\ agrCount' = agrCount + 1
    /\ IF member /\ wellFormed
       THEN LET p == AccumulatorProcess(agrCollected, agrReady, agrEmitted,
                                        agrStopped, hash)
            IN  /\ agrCollected' = p.collected
                /\ agrReady' = p.ready
       ELSE UNCHANGED <<agrCollected, agrReady>>
    /\ UNCHANGED <<agrEmitted, agrStopped, agrChan, agrListen, agrPubs,
                   agrFinalized>>
    /\ UNCHANGED outsideAgreement

\* an accumulator worker sends the batch on CollectedVotesChan
AccumulatorSend ==
    /\ ~agrStopped
    /\ agrReady # <<>>
    /\ Len(agrChan) < AgrChanCap
    /\ agrChan' = Append(agrChan, Head(agrReady))
    /\ agrEmitted' = agrEmitted \cup {Head(agrReady)}
    /\ agrReady' = Tail(agrReady)
    /\ UNCHANGED <<agrCollected, agrStopped, agrListen, agrPubs,
                   agrFinalized, agrCount>>
    /\ UNCHANGED outsideAgreement

\* listen: evs := <-a.accumulator.CollectedVotesChan
listenReceive ==
    /\ agrListen.pc = "wait"
    /\ agrChan # <<>>
    /\ agrListen' = [pc |-> "publish", hash |-> Head(agrChan)]
    /\ agrChan' = Tail(agrChan)
    /\ UNCHANGED <<agrCollected, agrReady, agrEmitted, agrStopped, agrPubs,
                   agrFinalized, agrCount>>
    /\ UNCHANGED outsideAgreement

AgrMsg(topic, hash) == [topic |-> topic, hash |-> hash, fin |-> agrFinalized]

\* variant: listen goes back to the channel after publishing
publishAgreement_Loop ==
    /\ agrListen.pc = "publish"
    /\ agrPubs' = agrPubs \o <<AgrMsg("AgreementEvent", agrListen.hash),
                               AgrMsg("WinningBlockHash", agrListen.hash)>>
    /\ agrListen' = [agrListen EXCEPT !.pc = "wait"]
    /\ UNCHANGED <<agrCollected, agrReady, agrEmitted, agrStopped, agrChan,
                   agrFinalized, agrCount>>
    /\ UNCHANGED outsideAgreement

\* listen: a.publishAgreement(evs[0]), AgreementEvent then WinningBlockHash;
\* the task ends
publishAgreement ==
    /\ agrListen.pc = "publish"
    /\ agrPubs' = agrPubs \o <<AgrMsg("AgreementEvent", agrListen.hash),
                               AgrMsg("WinningBlockHash", agrListen.hash)>>
    /\ agrListen' = [agrListen EXCEPT !.pc = "done"]
    /\ UNCHANGED <<agrCollected, agrReady, agrEmitted, agrStopped, agrChan,
                   agrFinalized, agrCount>>
    /\ UNCHANGED outsideAgreement

\* Finalize: a.accumulator.Stop()
Finalize ==
    /\ agrFinalized < MaxFinalize
    /\ agrStopped' = TRUE
    /\ agrFinalized' = agrFinalized + 1
    /\ UNCHANGED <<agrCollected, agrReady, agrEmitted, agrChan, agrListen,
                   agrPubs, agrCount>>
    /\ UNCHANGED outsideAgreement

AgreementNext ==
    \/ \E hash \in AgrHashes, member \in BOOLEAN, wellFormed \in BOOLEAN :
          CollectAgreementEvent(hash, member, wellFormed)
    \/ AccumulatorSend
    \/ listenReceive
    \/ publishAgreement
    \/ Finalize

(***************************************************************************)
(* Chain (chain/chain.go).                                                 *)
(***************************************************************************)
\* a block: its height, its hash and the hash of its predecessor
Blocks ==
    [height : 1..MaxHeight, hash : 1..NumBlockHashes,
     prev : 0..NumBlockHashes]

genesisBlock == [height |-> 0, hash |-> 0, prev |-> 0]

\* verifiers.CheckBlock against the tip: the block extends the tip
CheckBlock(prev, blk) ==
    blk.height = prev.height + 1 /\ blk.prev = prev.hash

\* the two tasks that run chain code: Listen and the callback of the
\* Block topic (onAcceptBlock)
ChainTasks == {"listen", "callback"}

IdleTask ==
    [pc |-> "idle", blk |-> genesisBlock, steps |-> <<>>, err |-> "none"]

\* the statements of AcceptBlock, in the order of the code
AcceptOrder_PublishBeforeStore ==
    <<"check", "nodes", "publish", "store", "tip", "advertise", "cleanup">>

AcceptOrder ==
    <<"check", "nodes", "store", "tip", "publish", "advertise", "cleanup">>

AfterPc(pc) ==
    LET i == CHOOSE k \in 1..Len(AcceptOrder) : AcceptOrder[k] = pc
    IN  IF i = Len(AcceptOrder) THEN "done" ELSE AcceptOrder[i + 1]

\* the task goes on to the next statement, having done step
Advance(t, step) ==
    [t EXCEPT !.pc = AfterPc(t.pc), !.steps = Append(@, step)]

\* the task returns err
Return(t, err) == [t EXCEPT !.pc = "done", !.err = err]

\* New: the genesis block is stored, the tip is the loaded chain tip
ChainInit ==
    /\ chPrev = genesisBlock
    /\ chStored = {genesisBlock}
    /\ chCandidates = {}
    /\ chPubs = <<>>
    /\ chTasks = [t \in ChainTasks |-> IdleTask]
    /\ chInputs = 0
    /\ chBidList = {}

Free(t) == chTasks[t].pc \in {"idle", "done"}

\* Listen, case b := <-c.candidateChan: handleCandidateBlock
handleCandidateBlock(blk, stored) ==
    /\ Free("listen")
    /\ chInputs < MaxChainInputs
    /\ chInputs' = chInputs + 1
    /\ chCandidates' = IF CheckBlock(chPrev, blk) /\ stored
                       THEN chCandidates \cup {blk} ELSE chCandidates
    /\ chTasks' = [chTasks EXCEPT !["listen"] = IdleTask]
    /\ UNCHANGED <<chPrev, chStored, chPubs>>
    /\ UNCHANGED chBidList
    /\ UNCHANGED outsideChain

\* Listen, case blockHash := <-c.winningHashChan: handleWinningHash fetches
\* the candidate and calls AcceptBlock
handleWinningHash(blockHash) ==
    /\ Free("listen")
    /\ chInputs < MaxChainInputs
    /\ chInputs' = chInputs + 1
    /\ LET found == {b \in chCandidates : b.hash = blockHash}
       IN  chTasks' = [chTasks EXCEPT !["listen"] =
              IF found = {} THEN Return(IdleTask, "fetch")
              ELSE [pc |-> AcceptOrder[1], blk |-> CHOOSE b \in found : TRUE,
                    steps |-> <<"fetch">>, err |-> "none"]]
    /\ UNCHANGED <<chPrev, chStored, chCandidates, chPubs>>
    /\ UNCHANGED chBidList
    /\ UNCHANGED outsideChain

\* the callback of the Block topic: the block is decoded and AcceptBlock is
\* called
onAcceptBlock(blk, decoded) ==
    /\ Free("callback")
    /\ chInputs < MaxChainInputs
    /\ chInputs' = chInputs + 1
    /\ chTasks' = [chTasks EXCEPT !["callback"] =
          IF ~decoded THEN Return(IdleTask, "decode")
          ELSE [pc |-> AcceptOrder[1], blk |-> blk, steps |-> <<>>,
                err |-> "none"]]
    /\ UNCHANGED <<chPrev, chStored, chCandidates, chPubs>>
    /\ UNCHANGED chBidList
    /\ UNCHANGED outsideChain

\* AcceptBlock 1: verifiers.CheckBlock(c.db, c.prevBlock, blk)
acceptCheck(t) ==
    /\ chTasks[t].pc = "check"
    /\ chTasks' = [chTasks EXCEPT ![t] =
          IF CheckBlock(chPrev, @.blk) THEN Advance(@, "verify")
          ELSE Return(@, "verify")]
    /\ UNCHANGED <<chPrev, chStored, chCandidates, chPubs, chInputs>>
    /\ UNCHANGED chBidList
    /\ UNCHANGED outsideChain

\* the transactions of a block, by their type; the hash of a block commits
\* to them
BlockTxs(blk) ==
    IF blk.hash % 3 = 1 THEN <<"Stake", "Bid">>
    ELSE IF blk.hash % 3 = 2 THEN <<"Standard">>
    ELSE <<"Bid", "Stake">>

\* calculateX: the bid of the Bid transaction of a block
calculateX(blk) == blk.hash

\* addConsensusNodes: for each Stake transaction addProvisioner publishes
\* NewProvisioner; for each Bid transaction addBidder adds the bid to the bid
\* list and propagateBidList publishes BidList
RECURSIVE addConsensusNodes(_, _, _, _)
addConsensusNodes(txs, blk, t, acc) ==
    IF txs = <<>> THEN acc
    ELSE LET msg(topic) == [topic |-> topic, blk |-> blk, task |-> t]
             next ==
                IF Head(txs) = "Stake"
                THEN [acc EXCEPT !.pubs = Append(@, msg("NewProvisioner"))]
                ELSE IF Head(txs) = "Bid"
                THEN [bids |-> acc.bids \cup {calculateX(blk)},
                      pubs |-> Append(acc.pubs, msg("BidList"))]
                ELSE acc
         IN  addConsensusNodes(Tail(txs), blk, t, next)

\* AcceptBlock 2: c.addConsensusNodes(blk.Txs, blk.Header.Height+1)
acceptNodes(t) ==
    /\ chTasks[t].pc = "nodes"
    /\ LET res == addConsensusNodes(BlockTxs(chTasks[t].blk), chTasks[t].blk, t,
                                    [bids |-> chBidList, pubs |-> chPubs])
       IN  /\ chBidList' = res.bids
           /\ chPubs' = res.pubs
    /\ chTasks' = [chTasks EXCEPT ![t].pc = AfterPc(@)]
    /\ UNCHANGED <<chPrev, chStored, chCandidates, chInputs>>
    /\ UNCHANGED outsideChain

\* variant: the error of StoreBlock is not returned
acceptStore_IgnoreError(t, ok) ==
    /\ chTasks[t].pc = "store"
    /\ chStored' = IF ok THEN chStored \cup {chTasks[t].blk} ELSE chStored
    /\ chTasks' = [chTasks EXCEPT ![t] = Advance(@, "store")]
    /\ UNCHANGED <<chPrev, chCandidates, chPubs, chInputs>>
    /\ UNCHANGED chBidList
    /\ UNCHANGED outsideChain

\* AcceptBlock 3: db.Update(StoreBlock); its error is returned
acceptStore(t, ok) ==
    /\ chTasks[t].pc = "store"
    /\ chStored' = IF ok THEN chStored \cup {chTasks[t].blk} ELSE chStored
    /\ chTasks' = [chTasks EXCEPT ![t] =
          IF ok THEN Advance(@, "store") ELSE Return(@, "store")]
    /\ UNCHANGED <<chPrev, chCandidates, chPubs, chInputs>>
    /\ UNCHANGED chBidList
    /\ UNCHANGED outsideChain

\* c.prevBlock = blk
acceptTip(t) ==
    /\ chTasks[t].pc = "tip"
    /\ chPrev' = chTasks[t].blk
    /\ chTasks' = [chTasks EXCEPT ![t] = Advance(@, "tip")]
    /\ UNCHANGED <<chStored, chCandidates, chPubs, chInputs>>
    /\ UNCHANGED chBidList
    /\ UNCHANGED outsideChain

ChainMsg(topic, t) == [topic |-> topic, blk |-> chTasks[t].blk, task |-> t]

\* AcceptBlock 4: the block is encoded and published as AcceptedBlock
acceptPublish(t, encoded) ==
    /\ chTasks[t].pc = "publish"
    /\ chPubs' = IF encoded THEN Append(chPubs, ChainMsg("AcceptedBlock", t))
                 ELSE chPubs
    /\ chTasks' = [chTasks EXCEPT ![t] =
          IF encoded THEN Advance(@, "accepted") ELSE Return(@, "encode")]
    /\ UNCHANGED <<chPrev, chStored, chCandidates, chInputs>>
    /\ UNCHANGED chBidList
    /\ UNCHANGED outsideChain

\* AcceptBlock 5: advertiseBlock streams the Inv on the Gossip topic
acceptAdvertise(t, added) ==
    /\ chTasks[t].pc = "advertise"
    /\ chPubs' = IF added THEN Append(chPubs, ChainMsg("Inv", t)) ELSE chPubs
    /\ chTasks' = [chTasks EXCEPT ![t] =
          IF added THEN Advance(@, "inv") ELSE Return(@, "advertise")]
    /\ UNCHANGED <<chPrev, chStored, chCandidates, chInputs>>
    /\ UNCHANGED chBidList
    /\ UNCHANGED outsideChain

\* AcceptBlock 6: DeleteCandidateBlocks(blk.Header.Height); a failure is
\* logged and the procedure ends without error
acceptCleanup(t, deleted) ==
    /\ chTasks[t].pc = "cleanup"
    /\ chCandidates' = IF deleted
                       THEN {b \in chCandidates :
                               b.height > chTasks[t].blk.height}
                       ELSE chCandidates
    /\ chTasks' = [chTasks EXCEPT ![t] = Advance(@, "delete")]
    /\ UNCHANGED <<chPrev, chStored, chPubs, chInputs>>
    /\ UNCHANGED chBidList
    /\ UNCHANGED outsideChain

ChainNext ==
    \/ \E blk \in Blocks, stored \in BOOLEAN : handleCandidateBlock(blk, stored)
    \/ \E blockHash \in 1..NumBlockHashes : handleWinningHash(blockHash)
    \/ \E blk \in Blocks, decoded \in BOOLEAN : onAcceptBlock(blk, decoded)
    \/ \E t \in ChainTasks : acceptCheck(t)
    \/ \E t \in ChainTasks : acceptNodes(t)
    \/ \E t \in ChainTasks, ok \in BOOLEAN : acceptStore(t, ok)
    \/ \E t \in ChainTasks : acceptTip(t)
    \/ \E t \in ChainTasks, encoded \in BOOLEAN : acceptPublish(t, encoded)
    \/ \E t \in ChainTasks, added \in BOOLEAN : acceptAdvertise(t, added)
    \/ \E t \in ChainTasks, deleted \in BOOLEAN : acceptCleanup(t, deleted)

(***************************************************************************)
(* Event bus and Republisher (republisher.go, eventbus).                   *)
(***************************************************************************)
\* the topic of the Republisher, as the byte that Prepend writes
RepTopic == 7

\* the buffers published on the topic
BusBufs == {<<0>>, <<1>>}

\* the listeners of the topic: the callback listener of the Republisher and
\* a channel listener
BusListenerIds == {"republisher", "chan"}

\* topics.Prepend: the topic byte is written in front of the buffer
Prepend(b, tpc) == <<tpc>> \o b

\* New (eventbus) then New (republisher), which calls Activate
BusInit ==
    /\ busListeners = {"republisher"}
    /\ busCalls = <<>>
    /\ busInflight = {}
    /\ busNotified = [id \in BusListenerIds |-> {}]
    /\ busChan = <<>>
    /\ busGossip = <<>>
    /\ busStopped = {}

\* Subscribe(topic, NewChanListener(myChan))
Subscribe(id) ==
    /\ id = "chan"
    /\ id \notin busListeners
    /\ id \notin busStopped
    /\ busListeners' = busListeners \cup {id}
    /\ UNCHANGED <<busCalls, busInflight, busNotified, busChan, busGossip,
                   busStopped>>
    /\ UNCHANGED outsideBus

\* variant: the listener stays in the listener map
Unsubscribe_KeepsListener(id) ==
    /\ id \in busListeners
    /\ id \notin busStopped
    /\ busStopped' = busStopped \cup {id}
    /\ UNCHANGED <<busListeners, busCalls, busInflight, busNotified, busChan,
                   busGossip>>
    /\ UNCHANGED outsideBus

\* Unsubscribe(topic, id); Republisher.Stop is Unsubscribe(r.tpc, r.id)
Unsubscribe(id) ==
    /\ id \in busListeners
    /\ busListeners' = busListeners \ {id}
    /\ busStopped' = busStopped \cup {id}
    /\ UNCHANGED <<busCalls, busInflight, busNotified, busChan, busGossip>>
    /\ UNCHANGED outsideBus

\* the call is over once every listener it loaded was notified
Notified(call, id) ==
    IF call.todo = {id} THEN busInflight \ {call}
    ELSE (busInflight \ {call}) \cup {[call EXCEPT !.todo = @ \ {id}]}

InflightCall(n) == CHOOSE c \in busInflight : c.n = n

\* the call n still has to notify the listener id
Notifying(n, id) == \E c \in busInflight : c.n = n /\ id \in c.todo

\* Publish(topic, buf): the listeners of the topic are loaded under the read
\* lock; they are notified outside the lock
Publish(buf, verdicts) ==
    /\ Len(busCalls) < MaxPublishes
    /\ Cardinality(busInflight) < MaxPublishers
    /\ busCalls' = Append(busCalls,
          [buf |-> buf, verdicts |-> verdicts, subs |-> busListeners,
           stopped |-> busStopped])
    /\ busInflight' = IF busListeners = {} THEN busInflight
                      ELSE busInflight \cup
                              {[n |-> Len(busCalls) + 1, todo |-> busListeners]}
    /\ UNCHANGED <<busListeners, busNotified, busChan, busGossip, busStopped>>
    /\ UNCHANGED outsideBus

\* the validators are run in order; the first error is returned
Validated(verdicts) == \A v \in 1..NumValidators : verdicts[v]

\* variant: the error of the last validator is not returned
Republish_SkipLastValidator(n) ==
    /\ Notifying(n, "republisher")
    /\ busInflight' = Notified(InflightCall(n), "republisher")
    /\ busNotified' = [busNotified EXCEPT !["republisher"] = @ \cup {n}]
    /\ busGossip' =
          IF \A v \in 1..(NumValidators - 1) : busCalls[n].verdicts[v]
          THEN Append(busGossip,
                  [n |-> n, payload |-> Prepend(busCalls[n].buf, RepTopic)])
          ELSE busGossip
    /\ UNCHANGED <<busListeners, busCalls, busChan, busStopped>>
    /\ UNCHANGED outsideBus

\* the callback listener is notified: Republish(b)
Republish(n) ==
    /\ Notifying(n, "republisher")
    /\ busInflight' = Notified(InflightCall(n), "republisher")
    /\ busNotified' = [busNotified EXCEPT !["republisher"] = @ \cup {n}]
    /\ busGossip' =
          IF Validated(busCalls[n].verdicts)
          THEN Append(busGossip,
                  [n |-> n, payload |-> Prepend(busCalls[n].buf, RepTopic)])
          ELSE busGossip
    /\ UNCHANGED <<busListeners, busCalls, busChan, busStopped>>
    /\ UNCHANGED outsideBus

\* the channel listener is notified: a send that does not block; the buffer
\* is dropped when the channel is full
ChanNotify(n) ==
    /\ Notifying(n, "chan")
    /\ busInflight' = Notified(InflightCall(n), "chan")
    /\ IF Len(busChan) < BusChanCap
       THEN /\ busChan' = Append(busChan, n)
            /\ busNotified' = [busNotified EXCEPT !["chan"] = @ \cup {n}]
       ELSE UNCHANGED <<busChan, busNotified>>
    /\ UNCHANGED <<busListeners, busCalls, busGossip, busStopped>>
    /\ UNCHANGED outsideBus

\* received := <-myChan
ChanReceive ==
    /\ busChan # <<>>
    /\ busChan' = Tail(busChan)
    /\ UNCHANGED <<busListeners, busCalls, busInflight, busNotified, busGossip,
                   busStopped>>
    /\ UNCHANGED outsideBus

BusNext ==
    \/ \E id \in BusListenerIds : Subscribe(id)
    \/ \E id \in BusListenerIds : Unsubscribe(id)
    \/ \E buf \in BusBufs, verdicts \in [1..NumValidators -> BOOLEAN] :
          Publish(buf, verdicts)
    \/ \E n \in 1..MaxPublishes : Republish(n)
    \/ \E n \in 1..MaxPublishes : ChanNotify(n)
    \/ ChanReceive

(***************************************************************************)
(* CompactSize integers (encoding/varint.go).                              *)
(*                                                                         *)
(* A uint64 is the sequence of its eight bytes, least significant first,   *)
(* so that the model covers the whole range [0, 2^64).                     *)
(***************************************************************************)
Byte == 0..255

Uint64Zero == <<0, 0, 0, 0, 0, 0, 0, 0>>

\* the bytes the values are made of
ValueBytes == {0, 1, 252, 253, 254, 255}

\* the values: v < 2^(8 * w) for a width w, with a chosen lowest byte, a
\* chosen highest byte and the bytes between them alike
Uint64Values ==
    {[k \in 1..8 |-> IF k > w THEN 0
                     ELSE IF k = 1 THEN lo
                     ELSE IF k = w THEN hi ELSE mid] :
        w \in {1, 2, 3, 4, 5, 8}, lo \in ValueBytes, hi \in ValueBytes,
        mid \in {0, 255}}

\* v < 2^(8 * n): the value fits in n bytes
FitsIn(v, n) == \A k \in (n + 1)..8 : v[k] = 0

\* v < 0xfd
BelowFD(v) == FitsIn(v, 1) /\ v[1] < 253

\* uint64(v) of a value of n bytes
ToUint64(b) == [k \in 1..8 |-> IF k <= Len(b) THEN b[k] ELSE 0]

\* WriteUint8, WriteUint16LE, WriteUint32LE, WriteUint64LE: the n low bytes
\* of v, least significant first
WriteUintLE(w, v, n) == w \o SubSeq(v, 1, n)

\* ReadUint8, ReadUint16LE, ReadUint32LE, ReadUint64LE: n bytes are taken
\* from the buffer; an error when the buffer holds fewer bytes
ReadUintLE(r, n) ==
    IF Len(r) < n
    THEN [err |-> "eof", val |-> Uint64Zero, rest |-> r]
    ELSE [err |-> "none", val |-> ToUint64(SubSeq(r, 1, n)),
          rest |-> SubSeq(r, n + 1, Len(r))]

\* variant: the single byte form is used up to 0xfd included
WriteVarInt_FDInOneByte(w, v) ==
    IF FitsIn(v, 1) /\ v[1] <= 253 THEN WriteUintLE(w, v, 1)
    ELSE IF FitsIn(v, 2) THEN WriteUintLE(w \o <<253>>, v, 2)
    ELSE IF FitsIn(v, 4) THEN WriteUintLE(w \o <<254>>, v, 4)
    ELSE WriteUintLE(w \o <<255>>, v, 8)

WriteVarInt(w, v) ==
    IF BelowFD(v) THEN WriteUintLE(w, v, 1)
    ELSE IF FitsIn(v, 2) THEN WriteUintLE(w \o <<253>>, v, 2)
    ELSE IF FitsIn(v, 4) THEN WriteUintLE(w \o <<254>>, v, 4)
    ELSE WriteUintLE(w \o <<255>>, v, 8)

VarIntError(err, rest) == [err |-> err, val |-> Uint64Zero, rest |-> rest]

\* the canonical encoding check of a number read in n bytes
NonCanonical(rv, n) ==
    IF n = 8 THEN FitsIn(rv, 4)
    ELSE IF n = 4 THEN FitsIn(rv, 2)
    ELSE BelowFD(rv)

\* after the discriminant the number of the announced width is read; the
\* canonical encoding check follows
VarIntBody(d, n, checked) ==
    LET rv == ReadUintLE(d.rest, n)
    IN  IF rv.err # "none" THEN VarIntError(rv.err, rv.rest)
        ELSE IF checked /\ NonCanonical(rv.val, n)
        THEN VarIntError("non-canonical", rv.rest)
        ELSE rv

\* variant: no canonical encoding check on the 0xfd form
ReadVarInt_NoCheckFD(r) ==
    LET d == ReadUintLE(r, 1)
    IN  IF d.err # "none" THEN VarIntError(d.err, d.rest)
        ELSE IF d.val[1] = 255 THEN VarIntBody(d, 8, TRUE)
        ELSE IF d.val[1] = 254 THEN VarIntBody(d, 4, TRUE)
        ELSE IF d.val[1] = 253 THEN VarIntBody(d, 2, FALSE)
        ELSE d

ReadVarInt(r) ==
    LET d == ReadUintLE(r, 1)
    IN  IF d.err # "none" THEN VarIntError(d.err, d.rest)
        ELSE IF d.val[1] = 255 THEN VarIntBody(d, 8, TRUE)
        ELSE IF d.val[1] = 254 THEN VarIntBody(d, 4, TRUE)
        ELSE IF d.val[1] = 253 THEN VarIntBody(d, 2, TRUE)
        ELSE d

VarIntEncodeSize(v) ==
    IF BelowFD(v) THEN 1
    ELSE IF FitsIn(v, 2) THEN 3
    ELSE IF FitsIn(v, 4) THEN 5
    ELSE 9

NotRead == [done |-> FALSE, err |-> "none", val |-> Uint64Zero, rest |-> <<>>]

VarIntInit ==
    /\ viBuf = <<>>
    /\ viVal = Uint64Zero
    /\ viFrom = "none"
    /\ viRes = NotRead

\* WriteVarInt(w, v) on an empty buffer
vi_Write(v) ==
    /\ viFrom = "none"
    /\ viBuf' = WriteVarInt(viBuf, v)
    /\ viVal' = v
    /\ viFrom' = "write"
    /\ UNCHANGED viRes
    /\ UNCHANGED outsideVarInt

\* what follows the integer in the message is written after it
vi_WriteMore(b) ==
    /\ viFrom = "write"
    /\ ~viRes.done
    /\ Len(viBuf) < VarIntEncodeSize(viVal) + MaxTrailing
    /\ viBuf' = WriteUintLE(viBuf, ToUint64(<<b>>), 1)
    /\ UNCHANGED <<viVal, viFrom, viRes>>
    /\ UNCHANGED outsideVarInt

\* a buffer received from a peer: a discriminant and the first bytes of a
\* number
vi_Receive(d, v, n) ==
    /\ viFrom = "none"
    /\ viBuf' = <<d>> \o SubSeq(v, 1, n)
    /\ viFrom' = "raw"
    /\ UNCHANGED <<viVal, viRes>>
    /\ UNCHANGED outsideVarInt

\* ReadVarInt(r)
vi_Read ==
    /\ viFrom # "none"
    /\ ~viRes.done
    /\ LET r == ReadVarInt(viBuf)
       IN  viRes' = [done |-> TRUE, err |-> r.err, val |-> r.val,
                     rest |-> r.rest]
    /\ UNCHANGED <<viBuf, viVal, viFrom>>
    /\ UNCHANGED outsideVarInt

\* the buffer is let go
vi_Reset ==
    /\ viRes.done
    /\ viBuf' = <<>>
    /\ viVal' = Uint64Zero
    /\ viFrom' = "none"
    /\ viRes' = NotRead
    /\ UNCHANGED outsideVarInt

VarIntNext ==
    \/ \E v \in Uint64Values : vi_Write(v)
    \/ \E b \in {0, 253} : vi_WriteMore(b)
    \/ \E d \in {0, 252, 253, 254, 255}, v \in Uint64Values, n \in 0..8 :
          vi_Receive(d, v, n)
    \/ vi_Read
    \/ vi_Reset

(***************************************************************************)
(* Candidate validation (candidate/validator.go).                          *)
(***************************************************************************)
\* the transactions of a block: one to MaxTxs transactions
TxLists ==
    UNION {[1..n -> 1..NumTxs] : n \in 1..MaxTxs}

\* blk.SetRoot: the Merkle root over the transactions; two lists of
\* transactions have two roots
RECURSIVE MerkleRoot(_)
MerkleRoot(txs) ==
    IF txs = <<>> THEN 0
    ELSE MerkleRoot(SubSeq(txs, 1, Len(txs) - 1)) * (NumTxs + 1)
            + txs[Len(txs)]

NumRoots == (NumTxs + 1) ^ MaxTxs

Roots == 0..(NumRoots - 1)

\* blk.SetHash: the hash over the fields of the header; two headers have two
\* hashes
HeaderHash(blk) == 1 + blk.height * NumRoots + blk.txRoot

Digests == 0..((MaxHeight + 1) * NumRoots)

\* a block whose hash and root were set before it was encoded
ValidBlock(height, txs) ==
    LET rooted == [height |-> height, txs |-> txs, txRoot |-> MerkleRoot(txs),
                   hash |-> 0]
    IN  [rooted EXCEPT !.hash = HeaderHash(rooted)]

\* checkHash: the stored hash against the recomputed one
checkHash(blk) ==
    IF blk.hash # HeaderHash(blk) THEN "invalid block hash" ELSE "nil"

\* checkRoot: the stored root against the recomputed one
checkRoot(blk) ==
    IF blk.txRoot # MerkleRoot(blk.txs) THEN "invalid merkle root hash"
    ELSE "nil"

\* variant: the root is not checked
Validate_HashOnly(blk, decoded) ==
    IF ~decoded THEN "decode error"
    ELSE checkHash(blk)

Validate(blk, decoded) ==
    IF ~decoded THEN "decode error"
    ELSE IF checkHash(blk) # "nil" THEN checkHash(blk)
    ELSE checkRoot(blk)

ValidatorInit ==
    /\ vdOrig = ValidBlock(1, <<1>>)
    /\ vdBlk = ValidBlock(1, <<1>>)
    /\ vdMutations = 0
    /\ vdRes = "none"

\* a valid block is encoded
vd_Encode(height, txs) ==
    /\ vdOrig' = ValidBlock(height, txs)
    /\ vdBlk' = vdOrig'
    /\ vdMutations' = 0
    /\ vdRes' = "none"
    /\ UNCHANGED outsideValidator

\* one transaction of the encoded block is changed
vd_MutateTx(k, tx) ==
    /\ vdMutations < MaxMutations
    /\ k \in 1..Len(vdBlk.txs)
    /\ tx # vdBlk.txs[k]
    /\ vdBlk' = [vdBlk EXCEPT !.txs[k] = tx]
    /\ vdMutations' = vdMutations + 1
    /\ vdRes' = "none"
    /\ UNCHANGED vdOrig
    /\ UNCHANGED outsideValidator

\* the hash field of the encoded header is changed
vd_MutateHash(hash) ==
    /\ vdMutations < MaxMutations
    /\ hash # vdBlk.hash
    /\ vdBlk' = [vdBlk EXCEPT !.hash = hash]
    /\ vdMutations' = vdMutations + 1
    /\ vdRes' = "none"
    /\ UNCHANGED vdOrig
    /\ UNCHANGED outsideValidator

\* the root field of the encoded header is changed
vd_MutateRoot(root) ==
    /\ vdMutations < MaxMutations
    /\ root # vdBlk.txRoot
    /\ vdBlk' = [vdBlk EXCEPT !.txRoot = root]
    /\ vdMutations' = vdMutations + 1
    /\ vdRes' = "none"
    /\ UNCHANGED vdOrig
    /\ UNCHANGED outsideValidator

\* Validate(b)
vd_Validate(decoded) ==
    /\ vdRes = "none"
    /\ vdRes' = Validate(vdBlk, decoded)
    /\ UNCHANGED <<vdOrig, vdBlk, vdMutations>>
    /\ UNCHANGED outsideValidator

ValidatorNext ==
    \/ \E height \in 1..MaxHeight, txs \in TxLists : vd_Encode(height, txs)
    \/ \E k \in 1..MaxTxs, tx \in 1..NumTxs : vd_MutateTx(k, tx)
    \/ \E hash \in Digests : vd_MutateHash(hash)
    \/ \E root \in Roots : vd_MutateRoot(root)
    \/ \E decoded \in BOOLEAN : vd_Validate(decoded)

(***************************************************************************)
(* reducer.Aggregate (reduction/reducer.go).                               *)
(***************************************************************************)
\* the committee members that vote
Voters == 1..NumVoters

\* the Reduction events of one step: one event per voter
StepEvents(step, hash, voters) ==
    [k \in 1..Cardinality(voters) |->
        [step |-> step, hash |-> hash,
         voter |-> CHOOSE v \in voters :
                      Cardinality({u \in voters : u < v}) = k - 1]]

\* events.NewStepVotes then StepVotes.Add for each event of the step, and
\* committee.Pack of the voters
StepVotesOf(voteSet, step) ==
    [Step |-> step,
     BitSet |-> {voteSet[k].voter :
                   k \in {j \in 1..Len(voteSet) : voteSet[j].step = step}}]

\* the keys of stepVotesMap
StepsOf(voteSet) == {voteSet[k].step : k \in 1..Len(voteSet)}

\* the orders in which a range over the map can visit its keys
MapOrders(keys) ==
    {o \in [1..Cardinality(keys) -> keys] :
        \A i, j \in 1..Cardinality(keys) : o[i] = o[j] => i = j}

\* events.NewAggregatedAgreement: two empty places
NoStepVotes == [Step |-> 0, BitSet |-> {}]

\* Aggregate: the votes are grouped by step in a map; the map is ranged
\* over and the i-th visited StepVotes is stored at VotesPerStep[i]
Aggregate(voteSet, order) ==
    [i \in 1..2 |-> IF i <= Len(order)
                    THEN StepVotesOf(voteSet, order[i])
                    ELSE NoStepVotes]

AggregateInit ==
    /\ aggVotes = [first |-> <<>>, second |-> <<>>]
    /\ aggOut = [built |-> FALSE, VotesPerStep |-> <<NoStepVotes, NoStepVotes>>]

\* a successful reduction: votes of step and of step + 1 for the same hash
agg_Reduction(step, hash, voters1, voters2) ==
    /\ aggVotes' = [first |-> StepEvents(step, hash, voters1),
                    second |-> StepEvents(step + 1, hash, voters2)]
    /\ aggOut' = [built |-> FALSE,
                  VotesPerStep |-> <<NoStepVotes, NoStepVotes>>]
    /\ UNCHANGED outsideAggregate

\* sendAgreement: Aggregate(h, append(events, eventsSecondStep...))
agg_Aggregate(order) ==
    /\ aggVotes.first # <<>>
    /\ ~aggOut.built
    /\ order \in MapOrders(StepsOf(aggVotes.first \o aggVotes.second))
    /\ aggOut' = [built |-> TRUE,
                  VotesPerStep |->
                     Aggregate(aggVotes.first \o aggVotes.second, order)]
    /\ UNCHANGED aggVotes
    /\ UNCHANGED outsideAggregate

AggregateNext ==
    \/ \E step \in 1..(MaxStep - 1), hash \in 1..NumHashes,
          voters1 \in (SUBSET Voters) \ {{}}, voters2 \in (SUBSET Voters) \ {{}} :
          agg_Reduction(step, hash, voters1, voters2)
    \/ \E order \in UNION {[1..n -> 1..MaxStep] : n \in 1..2} :
          agg_Aggregate(order)

(***************************************************************************)
(* Accesses of the reduction collector's tasks to the vote store           *)
(* (StepEventCollector) and to the active-reducer pointer (c.reducer).     *)
(* No function of collector.go takes a lock; an access lasts from its      *)
(* begin to its end.                                                       *)
(***************************************************************************)
AccessTasks ==
    {"subscriber", "onTimeout", "flushQueue", "broker", "startReduction"}

Read(obj) == [obj |-> obj, write |-> FALSE]

Write(obj) == [obj |-> obj, write |-> TRUE]

\* process: Store, then with the quorum the read of the votes and Clear
processAccesses(quorum) ==
    <<Write("store")>>
       \o (IF quorum THEN <<Read("store"), Write("store")>> ELSE <<>>)

\* Collect: isRelevant reads c.reducer, a relevant event is processed
CollectAccesses(relevant, quorum) ==
    <<Read("reducer")>>
       \o (IF relevant THEN processAccesses(quorum) ELSE <<>>)

\* onTimeout: Clear
onTimeoutAccesses == <<Write("store")>>

\* updateRound: Clear, the test of c.reducer and c.reducer = nil
updateRoundAccesses(hasReducer) ==
    <<Write("store"), Read("reducer")>>
       \o (IF hasReducer THEN <<Write("reducer")>> ELSE <<>>)

\* startReduction: c.reducer = newCoordinator(..), then the collector is
\* copied for flushQueue and c.reducer is read for begin
startReductionAccesses == <<Write("reducer"), Read("reducer")>>

\* flushQueue: process for each queued event
flushQueueAccesses(queued, quorum) ==
    IF queued THEN processAccesses(quorum) ELSE <<>>

IdleAccess == [todo |-> <<>>, inside |-> FALSE]

AccessInit == accTasks = [t \in AccessTasks |-> IdleAccess]

\* the task t starts on the accesses
Started(t, accesses) ==
    [accTasks EXCEPT ![t] = [todo |-> accesses, inside |-> FALSE]]

\* the subscriber of the Reduction topic calls Collect
acc_Collect(relevant, quorum) ==
    /\ accTasks["subscriber"].todo = <<>>
    /\ accTasks' = Started("subscriber", CollectAccesses(relevant, quorum))
    /\ UNCHANGED outsideAccess

\* a message on timeoutChan
acc_onTimeout ==
    /\ accTasks["onTimeout"].todo = <<>>
    /\ accTasks' = Started("onTimeout", onTimeoutAccesses)
    /\ UNCHANGED outsideAccess

\* broker.Listen, case roundUpdateChan: updateRound on the broker's task
acc_updateRound(hasReducer) ==
    /\ accTasks["broker"].todo = <<>>
    /\ accTasks' = Started("broker", updateRoundAccesses(hasReducer))
    /\ UNCHANGED outsideAccess

\* broker.Listen, cases selectionChan and reductionVoteChan:
\* go b.collector.startReduction()
acc_startReduction ==
    /\ accTasks["broker"].todo = <<>>
    /\ accTasks["flushQueue"].todo = <<>>
    /\ accTasks["startReduction"].todo = <<>>
    /\ accTasks' = Started("startReduction", startReductionAccesses)
    /\ UNCHANGED outsideAccess

\* the task enters its next access
acc_Begin(t) ==
    /\ accTasks[t].todo # <<>>
    /\ ~accTasks[t].inside
    /\ accTasks' = [accTasks EXCEPT ![t].inside = TRUE]
    /\ UNCHANGED outsideAccess

\* the task leaves the access; startReduction ends with go c.flushQueue()
acc_End(t, queued, quorum) ==
    /\ accTasks[t].inside
    /\ LET rest == Tail(accTasks[t].todo)
           left == [accTasks EXCEPT ![t] = [todo |-> rest, inside |-> FALSE]]
       IN  accTasks' =
              IF t = "startReduction" /\ rest = <<>>
              THEN [left EXCEPT !["flushQueue"] =
                      [todo |-> flushQueueAccesses(queued, quorum),
                       inside |-> FALSE]]
              ELSE left
    /\ UNCHANGED outsideAccess

AccessNext ==
    \/ \E relevant, quorum \in BOOLEAN : acc_Collect(relevant, quorum)
    \/ acc_onTimeout
    \/ \E hasReducer \in BOOLEAN : acc_updateRound(hasReducer)
    \/ acc_startReduction
    \/ \E t \in AccessTasks : acc_Begin(t)
    \/ \E t \in AccessTasks, queued, quorum \in BOOLEAN : acc_End(t, queued, quorum)

(***************************************************************************)
(* Agreement store: store.Insert, find, Contains, Clear.  Every method     *)
(* holds the store's lock for its whole body.                              *)
(***************************************************************************)
\* the Agreement events a committee member can send: the signed votes, and
\* so intRepr, are determined by the sender and the header
Agreements ==
    [step : 1..MaxStoreStep, hash : AgrHashes, sender : 1..NumSenders]

intRepr(a) ==
    ((a.sender - 1) * NumHashes + (a.hash - 1)) * MaxStoreStep + a.step

\* Agreement.Cmp: the comparison of the intRepr, as in storedAgreements.Less
Cmp(a, b) ==
    IF intRepr(a) < intRepr(b) THEN 0 - 1
    ELSE IF intRepr(a) = intRepr(b) THEN 0 ELSE 1

\* sort.Search(len(stored), func(i) { return stored[i].Cmp(a) <= 0 }) between
\* i and j (indices from 0)
RECURSIVE Search(_, _, _, _)
Search(stored, a, i, j) ==
    IF i >= j THEN i
    ELSE LET h == (i + j) \div 2
         IN  IF ~(Cmp(stored[h + 1], a) <= 0)
             THEN Search(stored, a, h + 1, j)
             ELSE Search(stored, a, i, h)

\* find: -1 when nothing is stored for the step of a
find(collected, a) ==
    LET stored == collected[a.step]
    IN  IF stored = <<>> THEN 0 - 1 ELSE Search(stored, a, 0, Len(stored))

contains(collected, idx, a) ==
    LET stored == collected[a.step]
    IN  IF idx = 0 - 1 THEN FALSE
        ELSE idx < Len(stored) /\ stored[idx + 1] = a

Contains(collected, a) == contains(collected, find(collected, a), a)

\* the loop of Insert: weight times, the slice grows by one, the elements
\* from idx move up by one and a is written at idx
RECURSIVE InsertCopies(_, _, _, _)
InsertCopies(stored, idx, a, weight) ==
    IF weight = 0 THEN stored
    ELSE InsertCopies(SubSeq(stored, 1, idx) \o <<a>>
                         \o SubSeq(stored, idx + 1, Len(stored)),
                      idx, a, weight - 1)

\* variant: the copies are appended at the end of the slice
Insert_Append(collected, a, weight) ==
    LET idx == find(collected, a)
        stored == collected[a.step]
    IN  IF idx = 0 - 1
        THEN [collected |-> [collected EXCEPT ![a.step] =
                                [k \in 1..weight |-> a]],
              ret |-> weight]
        ELSE IF contains(collected, idx, a)
        THEN [collected |-> collected, ret |-> Len(stored)]
        ELSE LET new == InsertCopies(stored, Len(stored), a, weight)
             IN  [collected |-> [collected EXCEPT ![a.step] = new],
                  ret |-> Len(new)]

\* Insert: the store after the call and the value returned
Insert(collected, a, weight) ==
    LET idx == find(collected, a)
        stored == collected[a.step]
    IN  IF idx = 0 - 1
        THEN [collected |-> [collected EXCEPT ![a.step] =
                                [k \in 1..weight |-> a]],
              ret |-> weight]
        ELSE IF contains(collected, idx, a)
        THEN [collected |-> collected, ret |-> Len(stored)]
        ELSE LET new == InsertCopies(stored, idx, a, weight)
             IN  [collected |-> [collected EXCEPT ![a.step] = new],
                  ret |-> Len(new)]

NoAgreements == [step \in 1..MaxStoreStep |-> <<>>]

NoCall ==
    [op |-> "none", a |-> CHOOSE a \in Agreements : TRUE, weight |-> 0,
     ret |-> 0, known |-> FALSE, before |-> NoAgreements]

\* newStore
StoreInit ==
    /\ stCollected = NoAgreements
    /\ stInserted = {}
    /\ stLast = NoCall
    /\ stOps = 0

st_Insert(a, weight) ==
    /\ stOps < MaxStoreOps
    /\ stOps' = stOps + 1
    /\ LET res == Insert(stCollected, a, weight)
       IN  /\ stCollected' = res.collected
           /\ stLast' = [op |-> "Insert", a |-> a, weight |-> weight,
                         ret |-> res.ret, known |-> a \in stInserted,
                         before |-> stCollected]
    /\ stInserted' = stInserted \cup {a}
    /\ UNCHANGED outsideStore

st_Contains(a) ==
    /\ stOps < MaxStoreOps
    /\ stOps' = stOps + 1
    /\ stLast' = [op |-> "Contains", a |-> a, weight |-> 0,
                  ret |-> IF Contains(stCollected, a) THEN 1 ELSE 0,
                  known |-> a \in stInserted, before |-> stCollected]
    /\ UNCHANGED <<stCollected, stInserted>>
    /\ UNCHANGED outsideStore

st_Clear ==
    /\ stOps < MaxStoreOps
    /\ stOps' = stOps + 1
    /\ stCollected' = NoAgreements
    /\ stInserted' = {}
    /\ stLast' = [NoCall EXCEPT !.op = "Clear", !.before = stCollected]
    /\ UNCHANGED outsideStore

StoreNext ==
    \/ \E a \in Agreements, weight \in 1..MaxWeight : st_Insert(a, weight)
    \/ \E a \in Agreements : st_Contains(a)
    \/ st_Clear

(***************************************************************************)
(* Generator: Initialize subscribes Collect to the Restart topic; Collect  *)
(* sends a Generation event internally.                                    *)
(***************************************************************************)
\* var emptyPayload = new(bytes.Buffer)
emptyPayload == <<>>

\* the Restart events: the round and the step published by the reducer
RestartEvents == [round : Rounds, step : Steps]

\* Signer.SendInternally: one event on the internal bus, with the current
\* (round, step) in its header
SendInternally(sent, coord, topic, hash, payload, id) ==
    Append(sent, [topic |-> topic, hash |-> hash, payload |-> payload,
                  round |-> coord.Round, step |-> coord.Step, id |-> id])

\* NewComponent
GeneratorInit ==
    /\ genListening = FALSE
    /\ genCoord = [Round |-> 1, Step |-> 1]
    /\ genRestarts = 0
    /\ genSent = <<>>

gen_Initialize ==
    /\ ~genListening
    /\ genListening' = TRUE
    /\ UNCHANGED <<genCoord, genRestarts, genSent>>
    /\ UNCHANGED outsideGenerator

\* the coordinator moves to the next step or to the next round
gen_Forward(round, step) ==
    /\ \/ round = genCoord.Round /\ step = genCoord.Step + 1
       \/ round = genCoord.Round + 1 /\ step = 1
    /\ genCoord' = [Round |-> round, Step |-> step]
    /\ UNCHANGED <<genListening, genRestarts, genSent>>
    /\ UNCHANGED outsideGenerator

\* variant: the payload of the Restart event is sent on
gen_Collect_ForwardsPayload(ev) ==
    /\ genListening
    /\ genRestarts < MaxRestarts
    /\ genRestarts' = genRestarts + 1
    /\ genSent' = SendInternally(genSent, genCoord, "Generation", EmptyHash,
                                 <<ev.round, ev.step>>, GeneratorID)
    /\ UNCHANGED <<genListening, genCoord>>
    /\ UNCHANGED outsideGenerator

\* Collect: the Restart event itself is not read
gen_Collect(ev) ==
    /\ genListening
    /\ genRestarts < MaxRestarts
    /\ genRestarts' = genRestarts + 1
    /\ genSent' = SendInternally(genSent, genCoord, "Generation", EmptyHash,
                                 emptyPayload, GeneratorID)
    /\ UNCHANGED <<genListening, genCoord>>
    /\ UNCHANGED outsideGenerator

\* Finalize does nothing
gen_Finalize ==
    /\ genListening
    /\ UNCHANGED genVars
    /\ UNCHANGED outsideGenerator

GeneratorNext ==
    \/ gen_Initialize
    \/ \E round \in Rounds, step \in Steps : gen_Forward(round, step)
    \/ \E ev \in RestartEvents : gen_Collect(ev)
    \/ gen_Finalize

(***************************************************************************)
(* Properties.                                                             *)
(***************************************************************************)
Topics(r) == {r.pubs[k].topic : k \in 1..Len(r.pubs)}

RestartCount(r) == Cardinality({k \in 1..Len(r.pubs) : r.pubs[k].topic = "Restart"})

\* a begin task that ran to its end without end() being called on it
Completed(r) == r.pc = "done" /\ ~r.ended

\* C1: an event for a later round that was put in the queue is, once the
\* flush of the step it targets has run in its round, delivered to the vote
\* store exactly once (or still held by that flush): not lost, not duplicated.
C1_EarlyEventDeliveredOnce ==
    \A e \in earlyDue :
        \/ \E i \in 1..Len(flushes) : e \in SeqRange(flushes[i].todo)
        \/ delivered[e.id] = 1

\* C2: with an active selector, process drops an event iff round <
\* CurrentRound or (round = CurrentRound and step < CurrentStep), and queues
\* it iff round > CurrentRound or (round = CurrentRound and step >
\* CurrentStep); every event of a later round is queued whatever its step.
C2_SelectionProcessClassifies ==
    [][\A round \in SelRounds, step \in SelSteps, score \in Scores :
          (selSelector # Nil /\ sel_Collect(round, step, score)) =>
             LET ev == [round |-> round, step |-> step, score |-> score]
                 out == sel_outcome(selCur, selSelector, selSelectors, ev)
                 before == round < selCur.Round
                              \/ (round = selCur.Round /\ step < selCur.Step)
                 after == round > selCur.Round
                              \/ (round = selCur.Round /\ step > selCur.Step)
             IN  /\ (out = "dropped") <=> before
                 /\ (selQueue' # selQueue) <=> after
                 /\ round > selCur.Round =>
                       selQueue'[round][step] = Append(selQueue[round][step], ev)
      ]_vars

\* C3: after a round update to R the collector's queue holds no entry with
\* round < R (selection UpdateRound and reduction updateRound).
C3_NoEntryBelowRoundAfterUpdate ==
    [][/\ \A R \in Rounds :
             updateRound(R) =>
                \A r \in Rounds, s \in Steps : r < R => queue'[r][s] = <<>>
       /\ \A R \in SelRounds :
             (sel_UpdateRound(R) /\ selBroker' = "idle") =>
                \A r \in SelRounds, s \in SelSteps :
                   r < R => selQueue'[r][s] = <<>>
      ]_vars

\* C4: the round held by a collector never decreases, and right after every
\* round update the step it holds is 1.
C4_RoundNeverDecreasesStepReset ==
    [][/\ state'.Round >= state.Round
       /\ selCur'.Round >= selCur.Round
       /\ \A R \in Rounds : updateRound(R) => state'.Step = 1
       /\ \A R \in SelRounds : sel_UpdateRound(R) => selCur'.Step = 1
      ]_vars

\* C5: a run that is not ended gossips an Agreement iff the first-step hash
\* equals the second-step hash, is not the zero hash, and the node is in the
\* committee; with different hashes no Agreement is published and Restart is
\* still published.
C5_AgreementIffSuccessfulInCommittee ==
    \A i \in 1..Len(runs) :
        LET r == runs[i]
            h1 == extractHash(r.ev1)
            h2 == extractHash(r.ev2)
            last == r.pubs[Len(r.pubs)]
        IN  Completed(r) =>
               /\ last.topic = "Restart"
               /\ ("Agreement" \in Topics(r)) <=>
                     /\ h1 = h2
                     /\ h1 # EmptyHash
                     /\ AmMember(last.round, last.step - 1)
               /\ h1 # h2 => "Agreement" \notin Topics(r)

\* a run that was not ended has gossiped an Agreement
C5_Witness ==
    \E i \in 1..Len(runs) :
        /\ Completed(runs[i])
        /\ "Agreement" \in Topics(runs[i])
        /\ runs[i].ev1 # <<>>

\* C6: every run not ended by end() publishes Restart exactly once, whether
\* or not the reduction succeeded, and only after the step has been
\* incremented exactly twice in that run.
C6_RestartOnceAfterTwoIncrements ==
    \A i \in 1..Len(runs) :
        LET r == runs[i]
        IN  /\ Completed(r) => RestartCount(r) = 1 /\ r.incs = 2
            /\ ~r.ended => RestartCount(r) <= 1
            /\ (~r.ended /\ RestartCount(r) > 0) => r.incs = 2

\* a run that was not ended published Restart without an Agreement, after
\* its second-step fetch returned votes
C6_Witness ==
    \E i \in 1..Len(runs) :
        /\ Completed(runs[i])
        /\ runs[i].how2 = "votes"
        /\ Topics(runs[i]) \cap {"Agreement", "Restart"} = {"Restart"}
        /\ runs[i].incs = 2

\* C7: a run ended by end() performs no publication and no step increment
\* after end() has returned, even if a batch arrives later or startReduction
\* is called again on the same reducer.
C7_EndedRunIsSilent ==
    \A i \in 1..Len(runs) :
        runs[i].ended => runs[i].late \cap {"pub", "inc"} = {}

\* C8: after end() no fetch of the ended run takes a batch from the shared
\* channel or blocks until the step timeout.
C8_EndedRunFetchesReturnPromptly ==
    \A i \in 1..Len(runs) :
        runs[i].ended => runs[i].late \cap {"votes", "timeout"} = {}

\* C9 as stated: if the first step timed out, no Agreement is published for
\* that run and Restart is still published.
C9_EmptyFirstStepNoAgreementRestart ==
    \A i \in 1..Len(runs) :
        LET r == runs[i]
        IN  (r.pc = "done" /\ r.how1 = "timeout") =>
               /\ "Agreement" \notin Topics(r)
               /\ "Restart" \in Topics(r)

\* C9 amended: if the first-step batch is empty no Agreement is published for
\* that run, whatever the second step collects; Restart is still published
\* when the run is not ended by end().
C9_EmptyFirstStepNoAgreement ==
    \A i \in 1..Len(runs) :
        LET r == runs[i]
        IN  /\ (r.how1 # "none" /\ r.ev1 = <<>>) => "Agreement" \notin Topics(r)
            /\ (Completed(r) /\ r.how1 = "timeout") => "Restart" \in Topics(r)

\* a run whose first step timed out, whose second step collected a batch with
\* the node in the committee, completed with Restart and no Agreement
C9_Witness ==
    \E i \in 1..Len(runs) :
        LET r == runs[i]
        IN  /\ Completed(r)
            /\ r.how1 = "timeout"
            /\ r.ev2 # <<>>
            /\ extractHash(r.ev2) # EmptyHash
            /\ AmMember(r.pubs[Len(r.pubs)].round, r.pubs[Len(r.pubs)].step - 1)
            /\ "Restart" \in Topics(r)
            /\ "Agreement" \notin Topics(r)

\* C10: if the first-step fetch of a run returns the empty batch, its
\* second-step fetch also returns the empty batch.
C10_EmptyFirstImpliesEmptySecond ==
    \A i \in 1..Len(runs) :
        LET r == runs[i]
        IN  (r.pc \in {"second", "done"} /\ r.ev1 = <<>>) => r.ev2 = <<>>


\* C11: when both steps of a run time out, the step timeout used by the next
\* run is double the one used by this run; after a successful reduction the
\* step timeout is the configured default.
C11_TimeoutDoublesAfterFailure ==
    [][\A red \in 1..Len(reducers), hash \in 1..NumHashes :
          (Len(runs) > 0 /\ reducer_startReduction(red, hash)) =>
             LET last == runs[Len(runs)]
                 next == runs'[Len(runs')]
             IN  /\ (Completed(last) /\ last.how1 = "timeout"
                        /\ last.how2 = "timeout") => next.tmo = 2 * last.tmo
                 /\ (Completed(last) /\ "Agreement" \in Topics(last)) =>
                       next.tmo = DefaultTimeout
      ]_vars

\* C12: a Reduction vote is published by startReduction only if the node is a
\* committee member for the current (round, step): every Reduction vote of a
\* run is for a (round, step) the node is a member of.
C12_VoteOnlyInCommittee ==
    \A i \in 1..Len(runs) :
        \A k \in 1..Len(runs[i].pubs) :
            LET m == runs[i].pubs[k]
            IN  m.topic = "Reduction" => AmMember(m.round, m.step)

\* the batches sent on collectedVotesChan so far: those still in the channel
\* and those a fetch has taken
EmittedBatches ==
    SeqRange(votesChan)
       \cup {runs[i].ev1 : i \in {j \in 1..Len(runs) : runs[j].ev1 # <<>>}}
       \cup {runs[i].ev2 : i \in {j \in 1..Len(runs) : runs[j].ev2 # <<>>}}

\* all events of batch b are of (round, step)
BatchOf(b, round, step) ==
    \A k \in 1..Len(b) : b[k].round = round /\ b[k].step = step

\* C13: every batch emitted on the collected-votes channel holds at least
\* Quorum events and all its events vote for the same hash.
C13_BatchOfOneHash ==
    \A b \in EmittedBatches :
        /\ Len(b) >= Quorum
        /\ \A k \in 1..Len(b) : b[k].hash = b[1].hash

\* C14: a batch is emitted as soon as the events collected for one hash reach
\* Quorum: with no send pending, the store never holds Quorum or more votes
\* for the same hash.
C14_EmittedAtQuorum ==
    (sub.pc = "idle" /\ \A i \in 1..Len(flushes) : flushes[i].pc # "send") =>
        \A key \in Keys, h \in VoteHashes :
            Cardinality({k \in 1..Len(sec[key]) : sec[key][k].hash = h}) < Quorum

\* C15: for each (round, step) at most one batch is emitted on the
\* collected-votes channel: no two batches are of the same (round, step).
C15_OneBatchPerStep ==
    \A b1 \in EmittedBatches, b2 \in EmittedBatches :
        b1 # b2 =>
           ~ \E round \in Rounds, step \in Steps :
                BatchOf(b1, round, step) /\ BatchOf(b2, round, step)

\* C16: when the accumulator delivers a quorum batch the component publishes
\* AgreementEvent and then WinningBlockHash, both with the block hash of that
\* batch; one component instance publishes at most one WinningBlockHash.
C16_AgreementThenWinningOnce ==
    /\ Cardinality({k \in 1..Len(agrPubs) :
                       agrPubs[k].topic = "WinningBlockHash"}) <= 1
    /\ agrListen.pc # "done" => agrPubs = <<>>
    /\ agrListen.pc = "done" =>
          /\ agrListen.hash \in agrEmitted
          /\ Len(agrPubs) = 2
          /\ agrPubs[1].topic = "AgreementEvent"
          /\ agrPubs[2].topic = "WinningBlockHash"
          /\ agrPubs[1].hash = agrListen.hash
          /\ agrPubs[2].hash = agrListen.hash

\* the component has published for the first batch and the accumulator has
\* delivered a second quorum batch, for another hash
C16_Witness ==
    /\ agrListen.pc = "done"
    /\ Len(agrPubs) = 2
    /\ agrChan # <<>>
    /\ Head(agrChan) # agrListen.hash

\* C17: Finalize can be called twice, and after Finalize has returned no
\* AgreementEvent and no WinningBlockHash is published.
C17_NothingPublishedAfterFinalize ==
    /\ agrFinalized >= 1 => agrStopped
    /\ \A k \in 1..Len(agrPubs) : agrPubs[k].fin = 0

C33_CurrentEventKept ==
    [][\A round \in Rounds, step \in Steps, hash \in 1..NumHashes :
          (Collect(round, step, hash)
              /\ round = state.Round /\ step = state.Step) =>
             \/ delivered'[nextEv + 1] = 1
             \/ queue'[round][step] # queue[round][step]
      ]_vars

\* C34: after updateRound(R) the active reducer of the collector is never one
\* started for a selection message or reduction vote of a round before R,
\* whatever the interleaving of the broker with the startReduction tasks it
\* spawns.
C34_ActiveReducerOfCurrentRound ==
    creducer # Nil => reducers[creducer].born >= state.Round

\* C35: the batch returned by the second-step fetch of a run consists of
\* second-step votes; a quorum batch of the run's first step, placed on the
\* shared channel around the first-step timeout, is never its second-step
\* result.
C35_SecondFetchTakesSecondStepVotes ==
    \A i \in 1..Len(runs) :
        LET r == runs[i]
        IN  (~r.ended /\ r.pubs # <<>> /\ r.how2 = "votes") =>
               \A e \in 1..Len(r.ev2) :
                  ~(r.ev2[e].round = r.pubs[1].round
                       /\ r.ev2[e].step = r.pubs[1].step)

(***************************************************************************)
(* Selection window properties.                                            *)
(***************************************************************************)
\* C26: a selection stopped by stopSelection (as UpdateRound calls it) emits
\* nothing: no listenSelection task receives the best event of a stopped
\* selector and puts a buffer on BestEventChan for it
C26_StoppedSelectionEmitsNothing ==
    \A k \in 1..Len(selListens) :
        selListens[k].pc \in {"send", "done"} =>
            ~selSelectors[selListens[k].on].stopped

\* C27: when the timer of the k-th StartSelection has expired, at most one
\* buffer was put on BestEventChan for its selector and the collector no
\* longer holds that selector
C27_IdleAfterExpiry ==
    \A k \in 1..Len(selTimers) :
        selTimers[k] = "fired" =>
            /\ Cardinality({j \in 1..Len(selListens) :
                              selListens[j].pc = "done" /\ selListens[j].on = k})
                  <= 1
            /\ selSelector # k

\* C37: the timer armed by a StartSelection stops only the selector of that
\* StartSelection: when it fires it finds neither a cleared selector nor the
\* selector of a later selection, and neither the timer nor stopSelection
\* stays blocked on a selector that has already stopped.
C37_TimerStopsOwnSelector ==
    [][/\ \A k \in 1..Len(selTimers) :
             sel_timerFires(k) =>
                /\ selSelector = k
                /\ selTimers'[k] = "fired"
       /\ \A round \in SelRounds :
             sel_UpdateRound(round) => selBroker' = "idle"
      ]_vars

\* C38: StartSelection loses no queued event of the current round: the events
\* it drains are processed, and the events queued for a step after the
\* current one are still queued when it returns.
C38_StartSelectionKeepsQueued ==
    [][StartSelection =>
          LET c == ConsumeNextStepEvents(selQueue, selCur.Round)
          IN  /\ c.events # <<>> => c.step = selCur.Step
              /\ \A s \in SelSteps :
                    s > selCur.Step =>
                       selQueue'[selCur.Round][s] = selQueue[selCur.Round][s]
      ]_vars

(***************************************************************************)
(* Aggregate properties.                                                   *)
(***************************************************************************)
\* C28: the AggregatedAgreement built from the votes of the two steps of a
\* successful reduction has its two StepVotes filled, VotesPerStep[0] with
\* the votes of the first step and VotesPerStep[1] with those of the second
C28_VotesPerStepInOrder ==
    aggOut.built =>
        /\ aggOut.VotesPerStep[1] =
              StepVotesOf(aggVotes.first, aggVotes.first[1].step)
        /\ aggOut.VotesPerStep[2] =
              StepVotesOf(aggVotes.second, aggVotes.second[1].step)

(***************************************************************************)
(* Shared-field access properties.                                         *)
(***************************************************************************)
\* the object task t is inside an access of, and whether it writes
Inside(t) == accTasks[t].inside

Current(t) == accTasks[t].todo[1]

\* C29: no two tasks of the reduction collector are at the same time inside
\* an access to the vote store, or to the active-reducer pointer, one of
\* them writing
C29_NoOverlappingAccess ==
    \A t1, t2 \in AccessTasks :
        (t1 # t2 /\ Inside(t1) /\ Inside(t2)
            /\ Current(t1).obj = Current(t2).obj)
           => (~Current(t1).write /\ ~Current(t2).write)

(***************************************************************************)
(* Chain properties.                                                       *)
(***************************************************************************)
\* C18: no two blocks stored by AcceptBlock have the same height, whatever
\* the interleaving of the Listen task and the Block-topic callback
C18_NoTwoStoredShareHeight ==
    \A b1, b2 \in chStored : b1.height = b2.height => b1 = b2

\* C19: when StoreBlock fails, AcceptBlock returns that error at once: the
\* call does not advance the tip and publishes neither AcceptedBlock nor an
\* Inv; a call that advanced the tip has persisted its block
C19_StoreFailureAborts ==
    \A t \in ChainTasks :
        LET task == chTasks[t]
        IN  /\ task.err = "store" =>
                 /\ task.pc = "done"
                 /\ SeqRange(task.steps) \cap {"store", "tip", "accepted", "inv"}
                       = {}
            /\ "tip" \in SeqRange(task.steps) => task.blk \in chStored

C19_Witness ==
    \E t \in ChainTasks :
        /\ chTasks[t].err = "store"
        /\ "verify" \in SeqRange(chTasks[t].steps)
        /\ chTasks[t].blk \notin chStored
        /\ chPrev # chTasks[t].blk

WinningHashOrder ==
    <<"fetch", "verify", "store", "tip", "accepted", "inv", "delete">>

\* C20: a block accepted through a winning hash is fetched, verified,
\* persisted, made the tip, published as AcceptedBlock, gossiped as Inv and
\* the obsolete candidates are deleted, in this order; every block published
\* as AcceptedBlock is persisted; a winning hash without a stored candidate
\* accepts nothing
C20_WinningHashOrder ==
    LET task == chTasks["listen"]
    IN  /\ Len(task.steps) <= Len(WinningHashOrder)
        /\ task.steps = SubSeq(WinningHashOrder, 1, Len(task.steps))
        /\ (task.pc = "done" /\ task.err = "none")
              => task.steps = WinningHashOrder
        /\ task.err = "fetch" => task.steps = <<>> /\ task.pc = "done"
        /\ \A k \in 1..Len(chPubs) :
              chPubs[k].topic = "AcceptedBlock" => chPubs[k].blk \in chStored

C20_Witness ==
    /\ chTasks["listen"].pc = "done"
    /\ chTasks["listen"].err = "none"
    /\ chTasks["listen"].steps = WinningHashOrder
    /\ chPrev = chTasks["listen"].blk
    /\ \E k \in 1..Len(chPubs) :
          chPubs[k] = [topic |-> "Inv", blk |-> chPrev, task |-> "listen"]

\* C39: when AcceptBlock returns the error of the verification or of
\* StoreBlock, the bid list is as it was and no NewProvisioner or BidList
\* message was published for the transactions of the rejected block.
C39_RejectedBlockLeavesNoTrace ==
    \A t \in ChainTasks :
        LET task == chTasks[t]
        IN  (task.pc = "done" /\ task.err \in {"verify", "store"}) =>
               /\ \A k \in 1..Len(chPubs) :
                     (chPubs[k].task = t /\ chPubs[k].blk = task.blk) =>
                        chPubs[k].topic \notin {"NewProvisioner", "BidList"}
               /\ calculateX(task.blk) \notin chBidList

(***************************************************************************)
(* Event bus and Republisher properties.                                   *)
(***************************************************************************)
\* the Publish call n has notified every listener it loaded
CallOver(n) == n \in 1..Len(busCalls) /\ \A c \in busInflight : c.n # n

GossipOf(n) == {k \in 1..Len(busGossip) : busGossip[k].n = n}

\* C21: a buffer handed to Republish is published on Gossip, with the topic
\* of the republisher in front, exactly once if every validator accepts it
\* and never if one rejects it
C21_RepublishIffValidated ==
    /\ \A n \in 1..Len(busCalls) :
          Cardinality(GossipOf(n)) =
             IF n \in busNotified["republisher"]
                  /\ \A v \in 1..NumValidators : busCalls[n].verdicts[v]
             THEN 1 ELSE 0
    /\ \A k \in 1..Len(busGossip) :
          /\ Head(busGossip[k].payload) = RepTopic
          /\ Tail(busGossip[k].payload) = busCalls[busGossip[k].n].buf

C21_Witness ==
    \E n, m \in busNotified["republisher"] :
        /\ GossipOf(n) # {}
        /\ \E v \in 1..NumValidators : ~busCalls[m].verdicts[v]
        /\ CallOver(m)

\* C22 as stated: a buffer published after Unsubscribe is not delivered to
\* the removed listener and every buffer published while the listener was
\* subscribed was delivered to it
C22_DeliveredIffSubscribed ==
    \A id \in BusListenerIds, n \in 1..Len(busCalls) :
        /\ id \in busCalls[n].stopped => n \notin busNotified[id]
        /\ (id \in busCalls[n].subs /\ CallOver(n)) => n \in busNotified[id]

\* C22 amended: a buffer published after Unsubscribe is not delivered to the
\* removed listener; every buffer published while a callback listener was
\* subscribed was delivered to it; a channel listener misses a buffer only
\* because its channel was full
C22_DeliveredIffSubscribedOrFull ==
    \A id \in BusListenerIds, n \in 1..Len(busCalls) :
        /\ id \in busCalls[n].stopped => n \notin busNotified[id]
        /\ (id = "republisher" /\ id \in busCalls[n].subs /\ CallOver(n))
              => n \in busNotified[id]
        /\ (id = "chan" /\ id \in busCalls[n].subs /\ CallOver(n)
              /\ n \notin busNotified[id])
              => Cardinality({m \in busNotified[id] : m # n}) >= BusChanCap

C22_Witness ==
    \E id \in busStopped, n, m \in 1..Len(busCalls) :
        /\ id \in busCalls[n].subs /\ n \in busNotified[id]
        /\ id \in busCalls[m].stopped /\ CallOver(m)
        /\ busCalls[m].subs # {}

(***************************************************************************)
(* CompactSize integer properties.                                         *)
(***************************************************************************)
\* C23: ReadVarInt on the bytes written by WriteVarInt(v) returns v without
\* error and leaves in the buffer exactly what was written after them
C23_VarIntRoundTrip ==
    (viFrom = "write" /\ viRes.done) =>
        /\ viRes.err = "none"
        /\ viRes.val = viVal
        /\ Len(viBuf) - Len(viRes.rest) = VarIntEncodeSize(viVal)
        /\ viRes.rest = SubSeq(viBuf, VarIntEncodeSize(viVal) + 1, Len(viBuf))

\* the boundary values 0xfc, 0xfd, 0xffff, 0x10000, 0xffffffff, 0x100000000
\* and 2^64 - 1
BoundaryValues ==
    {ToUint64(<<252>>), ToUint64(<<253>>), ToUint64(<<255, 255>>),
     ToUint64(<<0, 0, 1>>), ToUint64(<<255, 255, 255, 255>>),
     ToUint64(<<0, 0, 0, 0, 1>>),
     ToUint64(<<255, 255, 255, 255, 255, 255, 255, 255>>)}

C23_Witness ==
    /\ viFrom = "write"
    /\ viRes.done
    /\ viVal = ToUint64(<<0, 0, 0, 0, 1>>)
    /\ viRes.val = viVal
    /\ viRes.rest = <<253>>
    /\ BoundaryValues \subseteq Uint64Values

\* the width announced by a discriminant
AnnouncedWidth(d) ==
    IF d = 255 THEN 8 ELSE IF d = 254 THEN 4 ELSE IF d = 253 THEN 2 ELSE 0

\* C24: ReadVarInt returns an error for a number that a shorter form can
\* hold (0xfd with a number below 0xfd, 0xfe with one below 0x10000, 0xff
\* with one below 0x100000000) and when the buffer ends before the
\* announced width
C24_NonCanonicalOrShortRejected ==
    (viRes.done /\ viBuf # <<>>) =>
        LET d == viBuf[1]
            w == AnnouncedWidth(d)
            num == SubSeq(viBuf, 2, 1 + w)
        IN  /\ Len(viBuf) < 1 + w => viRes.err # "none"
            /\ (d = 253 /\ Len(viBuf) >= 3 /\ num[2] = 0 /\ num[1] < 253)
                  => viRes.err # "none"
            /\ (d = 254 /\ Len(viBuf) >= 5 /\ num[3] = 0 /\ num[4] = 0)
                  => viRes.err # "none"
            /\ (d = 255 /\ Len(viBuf) >= 9 /\ \A k \in 5..8 : num[k] = 0)
                  => viRes.err # "none"
            /\ viRes.err # "none" => viRes.val = Uint64Zero

C24_Witness ==
    /\ viFrom = "raw"
    /\ viRes.done
    /\ viBuf = <<253, 252, 0>>
    /\ viRes.err = "non-canonical"

(***************************************************************************)
(* Candidate validation properties.                                        *)
(***************************************************************************)
\* C25: for a block that decodes, Validate returns nil exactly when the
\* stored hash is the recomputed hash and the stored root is the recomputed
\* root; it returns "invalid block hash" when the stored hash differs, and
\* "invalid merkle root hash" when a transaction was changed and the header
\* is as it was encoded
C25_ValidateChecksHashAndRoot ==
    (vdRes \notin {"none", "decode error"}) =>
        /\ vdRes = "nil" <=>
              (vdBlk.hash = HeaderHash(vdBlk)
                  /\ vdBlk.txRoot = MerkleRoot(vdBlk.txs))
        /\ vdBlk.hash # HeaderHash(vdBlk) => vdRes = "invalid block hash"
        /\ (vdBlk.txs # vdOrig.txs /\ vdBlk.hash = vdOrig.hash
               /\ vdBlk.txRoot = vdOrig.txRoot /\ vdBlk.height = vdOrig.height)
              => vdRes = "invalid merkle root hash"

C25_Witness ==
    /\ vdRes = "invalid merkle root hash"
    /\ vdBlk.txs # vdOrig.txs
    /\ vdBlk.hash = vdOrig.hash
    /\ vdBlk.txRoot = vdOrig.txRoot
    /\ Len(vdBlk.txs) = MaxTxs

(***************************************************************************)
(* Agreement store properties.                                             *)
(***************************************************************************)
\* the agreements stored for the step of a that carry the block hash of a
StoredForHash(collected, a) ==
    Cardinality({k \in 1..Len(collected[a.step]) :
                    collected[a.step][k].hash = a.hash})

\* C32: Insert returns the number of agreements stored for the block hash of
\* the inserted agreement; agreements stored at the same step for another
\* block hash are not counted.
C32_InsertCountsBlockHash ==
    stLast.op = "Insert" => stLast.ret = StoredForHash(stCollected, stLast.a)

C36_OneGenerationPerRestart ==
    /\ Len(genSent) = genRestarts
    /\ \A k \in 1..Len(genSent) :
          /\ genSent[k].topic = "Generation"
          /\ genSent[k].hash = EmptyHash
          /\ genSent[k].payload = <<>>
          /\ genSent[k].id = GeneratorID

\* two Restart events were collected in different steps
C36_Witness ==
    /\ genRestarts >= 2
    /\ Len(genSent) >= 2
    /\ genSent[1].step # genSent[2].step

(***************************************************************************)
(* Specifications.                                                         *)
(***************************************************************************)
Init ==
    RedInit /\ SelInit /\ AgrInit /\ ChainInit /\ BusInit /\ VarIntInit
        /\ ValidatorInit /\ AggregateInit /\ AccessInit /\ StoreInit
        /\ GeneratorInit

\* the tasks of the reducer
ReducerTasks ==
    \/ \E i \in 1..Len(runs) : fetchTimeout(i)
    \/ \E i \in 1..Len(runs) : fetchVotes(i)
    \/ \E i \in 1..Len(runs) : begin(i)

\* the reduction collector and its broker, with the reducer it starts
CollectorNext ==
    \/ CollectInvalid
    \/ \E round \in Rounds, step \in Steps, hash \in 1..NumHashes :
          nextEv < MaxQueued /\ Collect(round, step, hash)
    \/ onTimeout
    \/ \E i \in 1..Len(flushes) : flushQueueGet(i)
    \/ \E i \in 1..Len(flushes) : flushQueueProcess(i)
    \/ \E round \in Rounds : updateRound(round)
    \/ brokerSelection(MaxStarts)
    \/ brokerReductionVote(MaxStarts)
    \/ collector_startReduction
    \/ ReducerTasks

SpecCollector == Init /\ [][CollectorNext]_vars

\* the vote collection of one round: the events of the current round, the
\* sends on collectedVotesChan, one reducer as the consumer
VotesNext ==
    \/ CollectInvalid
    \/ \E step \in Steps, hash \in 1..NumHashes :
          Collect(state.Round, step, hash)
    \/ CollectSend
    \/ onTimeout
    \/ \E i \in 1..Len(flushes) : flushQueueGet(i)
    \/ \E i \in 1..Len(flushes) : flushQueueProcess(i)
    \/ \E i \in 1..Len(flushes) : flushQueueSend(i)
    \/ brokerSelection(MaxStarts)
    \/ collector_startReduction
    \/ ReducerTasks

SpecVotes == Init /\ [][VotesNext]_vars

\* the reducer: one reducer built by newReducer and held by the collector,
\* with the collector as the producer of vote batches
ReducerInit ==
    /\ state = [Round |-> 1, Step |-> 1]
    /\ queue = EmptyQueue
    /\ sec = EmptySec
    /\ votesChan = <<>>
    /\ creducer = 1
    /\ reducers = <<[stale |-> FALSE, born |-> 1]>>
    /\ runs = <<>>
    /\ flushes = <<>>
    /\ sub = [pc |-> "idle", pend |-> <<>>]
    /\ spawned = <<>>
    /\ outgoing = 0
    /\ nextEv = 0
    /\ delivered = [i \in 1..MaxCollect |-> 0]
    /\ earlyWait = {}
    /\ earlyDue = {}
    /\ timeout = DefaultTimeout
    /\ SelInit
    /\ AgrInit
    /\ ChainInit
    /\ BusInit
    /\ VarIntInit
    /\ ValidatorInit
    /\ AggregateInit
    /\ AccessInit
    /\ StoreInit
    /\ GeneratorInit

ReducerNext ==
    \/ \E hash \in VoteHashes : votesCollected(hash)
    \/ (state.Round < MaxRound /\ updateRound(state.Round + 1))
    \/ \E red \in 1..Len(reducers), hash \in 1..NumHashes :
          reducer_startReduction(red, hash)
    \/ ReducerTasks

SpecReducer == ReducerInit /\ [][ReducerNext]_vars

\* the agreement component of one round
SpecAgreement == Init /\ [][AgreementNext]_vars

\* the accesses of the collector's tasks to its shared fields
SpecAccess == Init /\ [][AccessNext]_vars

\* the votes of a successful reduction aggregated
SpecAggregate == Init /\ [][AggregateNext]_vars

\* candidate blocks encoded, changed and validated
SpecValidator == Init /\ [][ValidatorNext]_vars

\* CompactSize integers written and read
SpecVarInt == Init /\ [][VarIntNext]_vars

\* the event bus with the Republisher and a channel listener
SpecBus == Init /\ [][BusNext]_vars

\* the chain: the Listen task and the Block-topic callback
SpecChain == Init /\ [][ChainNext]_vars

\* the selection collector
SpecSelection == Init /\ [][SelectionNext]_vars

\* the agreement store: Insert, Contains and Clear calls
SpecStore == Init /\ [][StoreNext]_vars

\* the Generator and the Restart events delivered to it
SpecGenerator == Init /\ [][GeneratorNext]_vars
====
